---- MODULE Spec2Model ----
(***************************************************************************)
(* A model of dxf_to_gerber.py: the DXF record reader (class DXFFile) and  *)
(* the Gerber / Excellon writer (class GerberWriter).                      *)
(*                                                                         *)
(* Conventions                                                             *)
(*  - A length, coordinate or diameter is an integer number of eighths of  *)
(*    the drawing unit: the reader rounds every numeric field to a         *)
(*    multiple of 1/prec, prec = 8, so the float 1.0 is 8 and -1.0 is -8.  *)
(*  - A Python string that the program inspects (a layer name, a line of   *)
(*    the input) is a sequence of one-character strings.                   *)
(*  - A Python dict with integer keys (an entity) is a function whose      *)
(*    domain is the set of keys present.  A polyline is the record         *)
(*    [ent |-> its integer-keyed fields, VERTICES |-> its 'VERTICES' list].*)
(***************************************************************************)
EXTENDS Integers, Sequences, FiniteSets, TLC

VARIABLES
    dxf,       \* the DXFFile object: [circles, polylines]
    gw,        \* the GerberWriter object's attributes
    files,     \* the output directory: extension -> [exists, lines]
    raised,    \* "" or the name of the exception that ended the program
    entities,  \* the dict last returned by process_dxf_for_writing
    request,   \* the layernames argument of that call
    holes,     \* the list last produced by no_duplicates(sorted(..,cmp=XthenY))
    f,         \* the input stream of the reader: [lines, pos, eof_reads, records]
    rd,        \* the reader's control state and local variables
    probe      \* the arguments and the results of calls of DXFFile.matches

vars == <<dxf, gw, files, raised, entities, request, holes, f, rd, probe>>

---------------------------------------------------------------------------
(* class DXFFile: the group codes and constants                            *)

X == 10
Y == 20
Z == 30
DIAMETER == 40
LINEWIDTH == 41
POLYLINE_FLAGS == 70
BULGE == 42
LAYER == 8
POLYLINE_FLAG_CLOSED == 1
prec == 8

---------------------------------------------------------------------------
(* Generic helpers                                                         *)

Range(s) == { s[i] : i \in DOMAIN s }

\* A left fold: the body of a Python for loop applied to each element in turn.
Fold(op(_, _), base, seq) ==
    LET F[i \in 0..Len(seq)] == IF i = 0 THEN base ELSE op(F[i - 1], seq[i])
    IN  F[Len(seq)]

\* All sequences over S of length at most n.
SeqsUpTo(S, n) == UNION { [1..k -> S] : k \in 0..n }

\* All orders in which the elements of a finite set can be listed.
Perms(S) ==
    { p \in [1..Cardinality(S) -> S] : \A i, j \in DOMAIN p : p[i] = p[j] => i = j }

---------------------------------------------------------------------------
(* Python floats.  A float that is a number is its count of eighths.  The  *)
(* counts the model can work out stay below 2^30, or are even (a doubled   *)
(* radius), so the odd integers next to 2^31 stand for the floats that are *)
(* no number: the two infinities, and the nan objects.  float('nan') makes *)
(* a new object at every call; a set or a dict tells nan objects apart by  *)
(* identity, and the operators == and < are false for every nan.           *)

PosInf == 2147483647
NegInf == -2147483647
\* the first nan object
NaN == 2147483645

\* the number of nan objects that can be told apart
MaxNaNs == 4

\* the i-th nan object, from 0
NaNObject(i) == NaN - 2 * i

IsNaN(v) == v % 2 = 1 /\ v <= NaN /\ v > NaN - 2 * MaxNaNs

IsFinite(v) == ~IsNaN(v) /\ v # PosInf /\ v # NegInf

\* what '%f' and '%g' print of a float that is no number: 'inf', '-inf', 'nan'
Printed(v) == IF IsNaN(v) THEN NaN ELSE v

\* a == b and a < b of two floats
float_eq(a, b) == ~IsNaN(a) /\ ~IsNaN(b) /\ a = b

float_lt(a, b) == ~IsNaN(a) /\ ~IsNaN(b) /\ a < b

---------------------------------------------------------------------------
(* Python string methods used on layer names                               *)

UpperCase == <<"A","B","C","D","E","F","G","H","I","J","K","L","M",
               "N","O","P","Q","R","S","T","U","V","W","X","Y","Z">>
LowerCase == <<"a","b","c","d","e","f","g","h","i","j","k","l","m",
               "n","o","p","q","r","s","t","u","v","w","x","y","z">>
\* the characters str.strip() removes: space, tab, line feed, carriage return,
\* form feed and vertical tab (the last written as the character itself)
Whitespace == {" ", "\t", "\n", "\r", "\f", ""}

UpperCaseLetters == Range(UpperCase)

\* the lower-case letter of each upper-case letter
LowerOf == [c \in UpperCaseLetters |->
               LowerCase[CHOOSE k \in DOMAIN UpperCase : UpperCase[k] = c]]

\* str.lower()
lower(s) ==
    [i \in DOMAIN s |-> IF s[i] \in UpperCaseLetters THEN LowerOf[s[i]] ELSE s[i]]

\* str.strip(): drop leading and trailing whitespace
RECURSIVE lstrip(_)
lstrip(s) ==
    IF s # <<>> /\ Head(s) \in Whitespace THEN lstrip(Tail(s)) ELSE s

RECURSIVE rstrip(_)
rstrip(s) ==
    IF s # <<>> /\ s[Len(s)] \in Whitespace THEN rstrip(SubSeq(s, 1, Len(s) - 1)) ELSE s

strip(s) == rstrip(lstrip(s))

\* a substitution that leaves the spaces in place
KeepSpaces(s) == s

\* re.sub(' ','_',s)
sub_space(s) == [i \in DOMAIN s |-> IF s[i] = " " THEN "_" ELSE s[i]]

\* the layer names of the writer's tables
s_BottomCopper == <<"B","o","t","t","o","m"," ","C","o","p","p","e","r">>
s_Bottom == <<"B","o","t","t","o","m">>
s_BottomOutlines == <<"B","o","t","t","o","m"," ","O","u","t","l","i","n","e","s">>
s_BottomOverlay == <<"B","o","t","t","o","m"," ","O","v","e","r","l","a","y">>
s_BottomSoldermask == <<"B","o","t","t","o","m"," ","S","o","l","d","e","r","m","a","s","k">>
s_TopCopper == <<"T","o","p"," ","C","o","p","p","e","r">>
s_Top == <<"T","o","p">>
s_TopOutlines == <<"T","o","p"," ","O","u","t","l","i","n","e","s">>
s_TopOverlay == <<"T","o","p"," ","O","v","e","r","l","a","y">>
s_TopSoldermask == <<"T","o","p"," ","S","o","l","d","e","r","m","a","s","k">>
s_Mechanical == <<"M","e","c","h","a","n","i","c","a","l">>
s_Cutout == <<"C","u","t","o","u","t">>
s_CutOut == <<"C","u","t"," ","O","u","t">>
s_Drill == <<"D","r","i","l","l">>

\* the layer names of the drawings
s_top_copper == <<"t","o","p","_","c","o","p","p","e","r">>
s_DRILL == <<" ","D","R","I","L","L">>
s_bottom == <<"b","o","t","t","o","m">>
s_0 == <<"0">>

\* names that differ in case, in spaces and underscores, and in the white
\* space around and inside them
n_TOP_COPPER == <<"T","O","P"," ","C","O","P","P","E","R">>
n_padded == <<"\t","t","o","p"," ","c","o","p","p","e","r"," ","\n">>
n_tabbed == <<"t","o","p","\t","c","o","p","p","e","r">>
n_underscored == <<"_","t","o","p","_","c","o","p","p","e","r">>
n_spaced == <<"t","o","p"," "," ","c","o","p","p","e","r">>
n_fed == <<"\f","T","o","p","">>
n_blank == <<" ">>
n_empty == <<>>

MatchNames ==
    { n_TOP_COPPER, n_padded, n_tabbed, n_underscored, n_spaced, n_fed,
      n_blank, n_empty }

LayerNames ==
    MatchNames \cup
    { s_BottomCopper, s_Bottom, s_BottomOutlines, s_BottomOverlay,
      s_BottomSoldermask, s_TopCopper, s_Top, s_TopOutlines, s_TopOverlay,
      s_TopSoldermask, s_Mechanical, s_Cutout, s_CutOut, s_Drill,
      s_top_copper, s_DRILL, s_bottom, s_0 }

\* re.sub(' ','_',a.strip().lower()) of each layer name of the model, worked
\* out once
Normalised == [s \in LayerNames |-> sub_space(lower(strip(s)))]

\* DXFFile.matches
matches(a, b) == Normalised[a] = Normalised[b]

\* int & int for naturals
RECURSIVE BitAnd(_, _)
BitAnd(a, b) ==
    IF a = 0 \/ b = 0 THEN 0
    ELSE (a % 2) * (b % 2) + 2 * BitAnd(a \div 2, b \div 2)

---------------------------------------------------------------------------
(* class DXFFile: the layer queries                                        *)

circles_on_layer(d, n) ==
    SelectSeq(d.circles, LAMBDA c : matches(c[LAYER], n))

polylines_on_layer(d, n) ==
    SelectSeq(d.polylines, LAMBDA p : matches(p.ent[LAYER], n))

ClosedTestMissingFlags(p) ==
    \/ POLYLINE_FLAGS \notin DOMAIN p.ent
    \/ BitAnd(p.ent[POLYLINE_FLAGS], POLYLINE_FLAG_CLOSED) # 0

\* the test of lines 175-176: the flags field is present and has the closed bit
IsClosedPolyline(p) ==
    /\ POLYLINE_FLAGS \in DOMAIN p.ent
    /\ BitAnd(p.ent[POLYLINE_FLAGS], POLYLINE_FLAG_CLOSED) # 0

\* the test of lines 166-170: no flags field, or the closed bit is clear
IsOpenPolyline(p) ==
    IF POLYLINE_FLAGS \notin DOMAIN p.ent
    THEN TRUE
    ELSE BitAnd(p.ent[POLYLINE_FLAGS], POLYLINE_FLAG_CLOSED) = 0

open_polylines_on_layer(d, n) ==
    SelectSeq(d.polylines, LAMBDA p : matches(p.ent[LAYER], n) /\ IsOpenPolyline(p))

closed_polylines_on_layer(d, n) ==
    SelectSeq(d.polylines, LAMBDA p : matches(p.ent[LAYER], n) /\ IsClosedPolyline(p))

---------------------------------------------------------------------------
(* class GerberWriter: the layer tables                                    *)

gerber_layers ==
    ".gbl" :> <<s_BottomCopper, s_Bottom>> @@
    ".gbo" :> <<s_BottomOutlines, s_BottomOverlay>> @@
    ".gbs" :> <<s_BottomSoldermask>> @@
    ".gtl" :> <<s_TopCopper, s_Top>> @@
    ".gto" :> <<s_TopOutlines, s_TopOverlay>> @@
    ".gts" :> <<s_TopSoldermask>>

mechanical_layers == ".gm1" :> <<s_Mechanical, s_Cutout, s_CutOut>>

excellon_layers == ".gdd" :> <<s_Drill>>

---------------------------------------------------------------------------
(* GerberWriter.process_dxf_for_writing                                    *)

process_dxf_for_writing(d, layernames) ==
    [ Tracks  |-> Fold(LAMBDA acc, layer : acc \o open_polylines_on_layer(d, layer),
                       <<>>, layernames),
      Regions |-> Fold(LAMBDA acc, layer : acc \o closed_polylines_on_layer(d, layer),
                       <<>>, layernames),
      Circles |-> Fold(LAMBDA acc, layer : acc \o circles_on_layer(d, layer),
                       <<>>, layernames) ]

---------------------------------------------------------------------------
(* class GerberWriter: formatting                                          *)

\* precision = (2,6): integer and decimal digits of a coordinate
precision == <<2, 6>>
\* scale = 1.0
scale == 1

RECURSIVE Pow10(_)
Pow10(n) == IF n = 0 THEN 1 ELSE 10 * Pow10(n - 1)

\* int(n/m) for m > 0: Python's int() truncates toward zero
IntTrunc(n, m) == IF n >= 0 THEN n \div m ELSE -((-n) \div m)

\* the nearest integer to n/m, ties to the even one (the rounding of '%.2f'
\* applied to a binary float that holds n/m exactly)
RoundHalfEven(n, m) ==
    LET q == n \div m
        r == n % m
    IN  IF 2 * r < m THEN q
        ELSE IF 2 * r > m THEN q + 1
        ELSE IF q % 2 = 0 THEN q ELSE q + 1

\* math.ceil(n/m) for m > 0
Ceil(n, m) == -((-n) \div m)

\* emit_coord: the integer printed for a coordinate, int(d*scale*10^6);
\* d is in eighths, so the product is d*scale*10^6/prec
emit_coord(d) == IntTrunc(d * scale * Pow10(precision[2]), prec)

\* what int() raises in emit_coord for a float that is no number
CoordError(d) ==
    IF IsNaN(d) THEN "ValueError"
    ELSE IF d \in {PosInf, NegInf} THEN "OverflowError"
    ELSE ""

\* exc_emit_coord: '%06.2f' % (d*scale) with leading zeros removed; the value
\* printed, in hundredths ('inf', '-inf' or 'nan' of a float that is no number)
exc_emit_coord(d) ==
    IF IsFinite(d) THEN RoundHalfEven(d * scale * 100, prec) ELSE Printed(d)

\* A line of an output file.  kind "param" is %<sym><..>*%, kind "cmd" is
\* <X..><Y..><sym><n>*, kind "exc" is a line of a drill file.  X and Y are <<>>
\* when the axis is not printed and <<v>> when it is printed with value v.
\* `at` and `of` are not part of the text: `at` is the point handed to
\* emit_point, `of` is <<d>> when the line is printed for a diameter or width d
\* (an aperture or tool definition, a flash, a drill point, a move or draw of a
\* track) and <<>> otherwise.
Line(kind, sym, n, xs, ys, val, at, of) ==
    [kind |-> kind, sym |-> sym, n |-> n, X |-> xs, Y |-> ys, val |-> val,
     at |-> at, of |-> of]

NoPoint == <<>>

\* emit_parameter(f,p,value)
emit_parameter(s, p, n, val) ==
    [s EXCEPT !.out = Append(@, Line("param", p, n, <<>>, <<>>, val, NoPoint, s.of))]

\* emit_command(f,symbol): a command without coordinates, its value the
\* empty string; the symbol G04 is printed with a space after it
emit_command(s, symbol, n) ==
    IF symbol = "G04"
    THEN [s EXCEPT !.out = Append(@, Line("cmd", "G04 ", n, <<>>, <<>>, 0, NoPoint, <<>>))]
    ELSE [s EXCEPT !.out = Append(@, Line("cmd", symbol, n, <<>>, <<>>, 0, NoPoint, <<>>))]

\* dict[k] = v
DictSet(dict, k, v) ==
    [x \in DOMAIN dict \cup {k} |-> IF x = k THEN v ELSE dict[x]]

EmptyDict == <<>>

---------------------------------------------------------------------------
(* class GerberWriter: the plotter                                         *)
(*                                                                         *)
(* The GerberWriter object is the function from the names of the           *)
(* attributes it has to their values: an attribute that no assignment has  *)
(* made yet is not in its domain, and reading it is an AttributeError.     *)
(* The state of a method that writes a file is [gw, dxf, out, exc, of]:    *)
(* the writer, the drawing it was handed, the lines printed, "" or the     *)
(* exception raised, and the diameter the lines are printed for.  A method *)
(* called after an exception was raised does nothing.                      *)

\* the float -1.0 of reset_gerber_state, in eighths
UnsetPosition == -prec

\* default_diameter = 0.01, in millionths
default_diameter == 10000

\* self.a = v for every field a of `new`
SetAttrs(g, new) == new @@ g

\* clear_aperture_cache
clear_aperture_cache(g) ==
    SetAttrs(g, [circular_apertures |-> <<>>,
                 aperture_codes |-> EmptyDict,
                 aperture_diameters |-> EmptyDict,
                 excellon_drill_diameters |-> EmptyDict,
                 excellon_drill_codes |-> EmptyDict,
                 current_aperture_code |-> -1,
                 excellon_drill_counter |-> -1,
                 current_excellon_drill_code |-> -1])

\* __init__: the object has the attributes of clear_aperture_cache and no
\* other (no region, X, Y, level_dark, aperture_counter, cam_base)
NewGerberWriter == clear_aperture_cache(EmptyDict)

\* the elements that measure_dxf_file adds to circular_apertures
MeasuredDiameters(d) ==
    { c[DIAMETER] : c \in Range(d.circles) } \cup
    { IF LINEWIDTH \in DOMAIN p.ent THEN p.ent[LINEWIDTH] ELSE 0 :
        p \in Range(d.polylines) }

\* measure_dxf_file.  circular_apertures is a Python set; the model keeps it as
\* the sequence in which the interpreter iterates it.  `order` is that
\* sequence for the enlarged set; a set that does not change keeps its order.
measure_dxf_file(g, d, order) ==
    IF MeasuredDiameters(d) \subseteq Range(g.circular_apertures)
    THEN g
    ELSE [g EXCEPT !.circular_apertures = order]

IterationOrders(g, d) ==
    Perms(Range(g.circular_apertures) \cup MeasuredDiameters(d))

\* emit_point: the axis words printed, and the position remembered.  X is
\* printed and stored before Y is looked at; int() in emit_coord raises for a
\* coordinate that is no number, before the axis is stored
emit_point(g, p) ==
    IF "X" \notin DOMAIN g
    THEN [gw |-> g, X |-> <<>>, Y |-> <<>>, exc |-> "AttributeError"]
    ELSE LET px == ~float_eq(g.X, p[1])
             py == ~float_eq(g.Y, p[2])
             gx == IF px THEN [g EXCEPT !.X = p[1]] ELSE g
         IN  IF px /\ CoordError(p[1]) # ""
             THEN [gw |-> g, X |-> <<>>, Y |-> <<>>, exc |-> CoordError(p[1])]
             ELSE IF py /\ CoordError(p[2]) # ""
             THEN [gw |-> gx, X |-> <<>>, Y |-> <<>>, exc |-> CoordError(p[2])]
             ELSE [gw |-> IF py THEN [gx EXCEPT !.Y = p[2]] ELSE gx,
                   X  |-> IF px THEN <<emit_coord(p[1])>> ELSE <<>>,
                   Y  |-> IF py THEN <<emit_coord(p[2])>> ELSE <<>>,
                   exc |-> ""]

\* emit_command(f, self.emit_point(p) + c): draw_to, move_to, flash_command.
\* The symbol handed to emit_command is the text of the point and c: it is
\* 'G04', which emit_command prints with a space after it, when c is 'G04'
\* and the point prints no axis
point_command(s, p, c) ==
    IF s.exc # "" THEN s
    ELSE CHOOSE r \in
           { IF e.exc # "" THEN [s EXCEPT !.gw = e.gw, !.exc = e.exc]
             ELSE [s EXCEPT !.gw = e.gw,
                            !.out = Append(@, Line("cmd",
                                IF c = "G04" /\ e.X = <<>> /\ e.Y = <<>>
                                THEN "G04 " ELSE c,
                                0, e.X, e.Y, 0, p, s.of))]
             : e \in { emit_point(s.gw, p) } } : TRUE

draw_to(s, p) == point_command(s, p, "D01")

move_to(s, p) == point_command(s, p, "D02")

flash_command(s, p, c) == point_command(s, p, c)

\* emit_level
emit_level(s, dark) ==
    [emit_parameter(s, "LP", 0, IF dark THEN 1 ELSE 0)
        EXCEPT !.gw = SetAttrs(@, [level_dark |-> dark])]

\* '%f' % (dia*self.scale), in millionths
ApertureSize(dia) ==
    IF IsFinite(dia) THEN ((dia * Pow10(6)) \div prec) * scale ELSE Printed(dia)

\* define_gerber_circular_aperture
define_gerber_circular_aperture(s, n, d) ==
    LET size == IF d = 0 THEN default_diameter * scale ELSE ApertureSize(d)
        s1   == emit_parameter([s EXCEPT !.of = <<d>>], "ADD", n, size)
    IN  [s1 EXCEPT !.of = <<>>, !.gw.aperture_diameters = DictSet(@, d, n),
                   !.gw.aperture_codes = DictSet(@, n, d)]

\* a region switch that emits its command and forgets to note the new mode
SwitchWithoutFlag(s, state) ==
    IF s.exc # "" THEN s
    ELSE IF "region" \notin DOMAIN s.gw THEN [s EXCEPT !.exc = "AttributeError"]
    ELSE IF s.gw.region # state
    THEN IF state THEN emit_command(s, "G36", 0) ELSE emit_command(s, "G37", 0)
    ELSE s

\* ensure_region; a writer that has no attribute region yet is an
\* AttributeError
ensure_region(s, state) ==
    IF s.exc # "" THEN s
    ELSE IF "region" \notin DOMAIN s.gw THEN [s EXCEPT !.exc = "AttributeError"]
    ELSE IF s.gw.region # state
    THEN IF state
         THEN [emit_command(s, "G36", 0) EXCEPT !.gw.region = TRUE]
         ELSE [emit_command(s, "G37", 0) EXCEPT !.gw.region = FALSE]
    ELSE s

\* write_gerber_select_aperture; a diameter without a code is a KeyError
write_gerber_select_aperture(s, c) ==
    IF s.exc # "" THEN s
    ELSE IF c \notin DOMAIN s.gw.aperture_diameters
    THEN [s EXCEPT !.exc = "KeyError"]
    ELSE LET req_aperture_code == s.gw.aperture_diameters[c]
         IN  IF s.gw.current_aperture_code # req_aperture_code
             THEN [emit_command(s, "D", req_aperture_code)
                      EXCEPT !.gw.current_aperture_code = req_aperture_code]
             ELSE s

\* reset_gerber_state (current_aperture_diameter and current_drill_diameter
\* are written here and read nowhere)
reset_gerber_state(s) ==
    [emit_level(s, TRUE)
        EXCEPT !.gw = SetAttrs(@, [region |-> FALSE,
                                   X |-> UnsetPosition,
                                   Y |-> UnsetPosition,
                                   current_aperture_code |-> -1])]

\* write_gerber_header
write_gerber_header(s) ==
    reset_gerber_state(
        emit_parameter(
            emit_parameter(
                emit_parameter(
                    emit_parameter(s, "G04", 0, 0),
                    "FS", precision[1] * 10 + precision[2], 0),
                "MO", 0, 0),
            "SR", 0, 0))

ApertureCounterStuck(s) ==
    Fold(LAMBDA t, c : define_gerber_circular_aperture(t, t.gw.aperture_counter, c),
         [s EXCEPT !.gw = SetAttrs(@, [aperture_counter |-> 10])],
         s.gw.circular_apertures)

\* write_gerber_apertures
write_gerber_apertures(s) ==
    Fold(LAMBDA t, c :
            [define_gerber_circular_aperture(t, t.gw.aperture_counter, c)
                EXCEPT !.gw.aperture_counter = @ + 1],
         [s EXCEPT !.gw = SetAttrs(@, [aperture_counter |-> 10])],
         s.gw.circular_apertures)

\* the point (e[X], e[Y]) of a vertex or circle
PointOf(e) == <<e[X], e[Y]>>

\* the loop "for point in points: self.draw_to(...)" over the rest of a list
DrawRest(s, verts) ==
    Fold(LAMBDA t, v : draw_to(t, PointOf(v)), s, Tail(verts))

\* the drawing with the width 0.0 stored in the polyline that has none
WithWidthStored(d, poly) ==
    [d EXCEPT !.polylines =
        [i \in DOMAIN d.polylines |->
            IF d.polylines[i] = poly
            THEN [poly EXCEPT !.ent = DictSet(@, LINEWIDTH, 0)]
            ELSE d.polylines[i]]]

\* a track writer that stores the width it falls back on in the polyline
TrackStoresWidth(s, poly) ==
    LET s1 == ensure_region(
                  [s EXCEPT !.of = IF LINEWIDTH \in DOMAIN poly.ent
                                   THEN <<poly.ent[LINEWIDTH]>> ELSE <<0>>,
                            !.dxf = IF LINEWIDTH \in DOMAIN poly.ent
                                    THEN @ ELSE WithWidthStored(@, poly)],
                  FALSE)
        s2 == IF LINEWIDTH \in DOMAIN poly.ent
              THEN write_gerber_select_aperture(s1, poly.ent[LINEWIDTH])
              ELSE write_gerber_select_aperture(s1, 0)
    IN  IF s2.exc # "" THEN s2
        ELSE IF poly.VERTICES = <<>> THEN [s2 EXCEPT !.exc = "StopIteration"]
        ELSE DrawRest(move_to(s2, PointOf(Head(poly.VERTICES))), poly.VERTICES)

\* write_gerber_track; points.next() on an empty list is a StopIteration
write_gerber_track(s, poly) ==
    LET s1 == ensure_region(
                  [s EXCEPT !.of = IF LINEWIDTH \in DOMAIN poly.ent
                                   THEN <<poly.ent[LINEWIDTH]>> ELSE <<0>>],
                  FALSE)
        s2 == IF LINEWIDTH \in DOMAIN poly.ent
              THEN write_gerber_select_aperture(s1, poly.ent[LINEWIDTH])
              ELSE write_gerber_select_aperture(s1, 0)
    IN  IF s2.exc # "" THEN s2
        ELSE IF poly.VERTICES = <<>> THEN [s2 EXCEPT !.exc = "StopIteration"]
        ELSE DrawRest(move_to(s2, PointOf(Head(poly.VERTICES))), poly.VERTICES)

\* emit_region: it reads the key 'VERTICIES', which no polyline of the reader
\* has (KeyError), and takes each point as the pair (x, y) itself
emit_region(s, poly) ==
    LET s1 == ensure_region([s EXCEPT !.of = <<>>], TRUE)
    IN  IF s1.exc # "" THEN s1
        ELSE IF "VERTICIES" \notin DOMAIN poly THEN [s1 EXCEPT !.exc = "KeyError"]
        ELSE IF poly.VERTICIES = <<>> THEN [s1 EXCEPT !.exc = "StopIteration"]
        ELSE draw_to(Fold(LAMBDA t, point : draw_to(t, point),
                          move_to(s1, Head(poly.VERTICIES)),
                          Tail(poly.VERTICIES)),
                     Head(poly.VERTICIES))

\* a region plotted without the closing draw back to its first vertex
RegionLeftOpen(s, poly) ==
    LET s1 == ensure_region([s EXCEPT !.of = <<>>], TRUE)
    IN  IF s1.exc # "" THEN s1
        ELSE IF poly.VERTICES = <<>> THEN [s1 EXCEPT !.exc = "StopIteration"]
        ELSE DrawRest(move_to(s1, PointOf(Head(poly.VERTICES))), poly.VERTICES)

\* write_gerber_region
write_gerber_region(s, poly) ==
    LET s1 == ensure_region([s EXCEPT !.of = <<>>], TRUE)
    IN  IF s1.exc # "" THEN s1
        ELSE IF poly.VERTICES = <<>> THEN [s1 EXCEPT !.exc = "StopIteration"]
        ELSE draw_to(DrawRest(move_to(s1, PointOf(Head(poly.VERTICES))),
                              poly.VERTICES),
                     PointOf(Head(poly.VERTICES)))

FlashAlways(s, c) ==
    LET s1 == write_gerber_select_aperture([s EXCEPT !.of = <<c[DIAMETER]>>],
                                           c[DIAMETER])
    IN  IF s1.exc # "" THEN s1 ELSE flash_command(s1, PointOf(c), "D03")

\* write_gerber_flash
write_gerber_flash(s, c) ==
    IF c[X] = 0 /\ c[Y] = 0 THEN s
    ELSE LET s1 == write_gerber_select_aperture(
                       [s EXCEPT !.of = <<c[DIAMETER]>>], c[DIAMETER])
         IN  IF s1.exc # "" THEN s1 ELSE flash_command(s1, PointOf(c), "D03")

\* write_gerber_trailer
write_gerber_trailer(s) ==
    LET s1 == ensure_region(s, FALSE)
    IN  IF s1.exc # "" THEN s1 ELSE emit_command(s1, "M02", 0)

---------------------------------------------------------------------------
(* class GerberWriter: sorting and filtering the circles                   *)

\* XthenY: -1, 1, or the bool a[DIAMETER] < b[DIAMETER] (True is 1, False is 0)
XthenY(a, b) ==
    IF float_lt(a[X], b[X]) THEN -1
    ELSE IF float_lt(b[X], a[X]) THEN 1
    ELSE IF float_lt(a[Y], b[Y]) THEN -1
    ELSE IF float_lt(b[Y], a[Y]) THEN 1
    ELSE IF float_lt(a[DIAMETER], b[DIAMETER]) THEN 1 ELSE 0

\* The order test of the list sort: "cmp(x, y) < 0" when a cmp function is
\* given, "x < y" when none is.
islt(x, y, compare) ==
    IF compare = "XthenY" THEN XthenY(x, y) < 0 ELSE float_lt(x, y)

\* The list sort, for a list of fewer than 64 elements: the run at the head
\* of the list is found (and reversed when it descends), then every later
\* element is put in its place among those before it by binary insertion.

\* count_run: the length of the run at the head of k, and whether it descends
count_run(k, compare) ==
    IF Len(k) < 2 THEN [n |-> Len(k), descending |-> FALSE]
    ELSE LET desc == islt(k[2], k[1], compare)
             ends == { i \in 3..Len(k) : islt(k[i], k[i - 1], compare) # desc }
         IN  [n |-> IF ends = {} THEN Len(k)
                    ELSE (CHOOSE i \in ends : \A j \in ends : i <= j) - 1,
              descending |-> desc]

\* the binary search of binarysort: the number of elements of a[l+1..r] that
\* stay in front of pivot
RECURSIVE binary_place(_, _, _, _, _)
binary_place(a, pivot, l, r, compare) ==
    IF l >= r THEN l
    ELSE LET p == l + ((r - l) \div 2)
         IN  IF islt(pivot, a[p + 1], compare)
             THEN binary_place(a, pivot, l, p, compare)
             ELSE binary_place(a, pivot, p + 1, r, compare)

\* binarysort: a[1..start-1] is in order; each a[i] from start on is inserted
binarysort(a, start, compare) ==
    Fold(LAMBDA b, i :
            LET at == binary_place(b, b[i], 0, i - 1, compare)
            IN  SubSeq(b, 1, at) \o <<b[i]>> \o SubSeq(b, at + 1, i - 1)
                \o SubSeq(b, i + 1, Len(b)),
         a, [j \in 1..(Len(a) - start + 1) |-> start + j - 1])

\* reverse_slice(lo, lo + n)
reverse_slice(k, n) ==
    [i \in DOMAIN k |-> IF i <= n THEN k[n + 1 - i] ELSE k[i]]

listsort(k, compare) ==
    LET run == count_run(k, compare)
    IN  binarysort(IF run.descending THEN reverse_slice(k, run.n) ELSE k,
                   run.n + 1, compare)

\* sorted(k, cmp=XthenY)
sorted(k) == listsort(k, "XthenY")

\* no_duplicates: a generator; i is the element last yielded
no_duplicates(k) ==
    Fold(LAMBDA st, j :
            IF st.First
            THEN [First |-> FALSE, i |-> <<j>>, out |-> Append(st.out, j)]
            ELSE IF XthenY(st.i[1], j) = 0
                 THEN st
                 ELSE [st EXCEPT !.i = <<j>>, !.out = Append(@, j)],
         [First |-> TRUE, i |-> <<>>, out |-> <<>>],
         k).out

---------------------------------------------------------------------------
(* class GerberWriter: writing a Gerber file                               *)

\* the file written by open(fname,'w'): created or truncated, then holding
\* the lines printed until the with block ends (normally or by an exception)
WrittenFile(lines) == [exists |-> TRUE, lines |-> lines]

NoFile == [exists |-> FALSE, lines |-> <<>>]

\* the three loops of write_gerber_file (lines 482-499), each of which an
\* exception ends
GerberTracks(s, ent) ==
    Fold(LAMBDA t, c :
            Fold(LAMBDA u, p :
                    IF u.exc # "" THEN u
                    ELSE IF LINEWIDTH \in DOMAIN p.ent
                         THEN IF float_eq(p.ent[LINEWIDTH], c)
                              THEN write_gerber_track(u, p) ELSE u
                         ELSE IF c = 0 THEN write_gerber_track(u, p) ELSE u,
                 t, ent.Tracks),
         s, s.gw.circular_apertures)

GerberFlashes(s, ent) ==
    Fold(LAMBDA t, d :
            Fold(LAMBDA u, c :
                    IF u.exc # "" THEN u
                    ELSE IF float_eq(d, c[DIAMETER]) THEN write_gerber_flash(u, c) ELSE u,
                 t, no_duplicates(sorted(ent.Circles))),
         s, s.gw.circular_apertures)

GerberRegions(s, ent) ==
    Fold(LAMBDA t, r : IF t.exc # "" THEN t ELSE write_gerber_region(t, r),
         s, ent.Regions)

\* the state of a method that has opened its file and printed nothing yet
Opened(g, d) == [gw |-> g, dxf |-> d, out |-> <<>>, exc |-> "", of |-> <<>>]

\* the file body with the regions plotted before the flashes
RegionsBeforeFlashes(g, d, ent) ==
    LET s1 == write_gerber_apertures(write_gerber_header(Opened(g, d)))
        s2 == GerberFlashes(GerberRegions(GerberTracks(s1, ent), ent), ent)
    IN  IF s2.exc # "" THEN s2 ELSE write_gerber_trailer(s2)

\* the with block of write_gerber_file
GerberBody(g, d, ent) ==
    LET s1 == write_gerber_apertures(write_gerber_header(Opened(g, d)))
        s2 == GerberRegions(GerberFlashes(GerberTracks(s1, ent), ent), ent)
    IN  IF s2.exc # "" THEN s2 ELSE write_gerber_trailer(s2)

\* write_gerber_file.  P is the program state [gw, dxf, files, raised]: the
\* writer, the drawing that the argument dxf refers to, the output
\* directory, "" or the exception raised.
write_gerber_file(P, fname, layernames) ==
    IF P.raised # "" THEN P
    ELSE LET ent == process_dxf_for_writing(P.dxf, layernames)
         IN  IF Len(ent.Regions) = 0 /\ Len(ent.Tracks) = 0 /\ Len(ent.Circles) = 0
             THEN [P EXCEPT !.files[fname] = NoFile]
             ELSE LET s == GerberBody(P.gw, P.dxf, ent)
                  IN  [gw |-> s.gw,
                       dxf |-> s.dxf,
                       files |-> [P.files EXCEPT ![fname] = WrittenFile(s.out)],
                       raised |-> s.exc]

---------------------------------------------------------------------------
(* class GerberWriter: writing an Excellon file                            *)

exc_line(s, sym, n, val) ==
    [s EXCEPT !.out = Append(@, Line("exc", sym, n, <<>>, <<>>, val, NoPoint, s.of))]

\* write_excellon_header
write_excellon_header(s) ==
    exc_line(exc_line(exc_line(exc_line(s, "%", 0, 0), "M48", 0, 0),
                      "METRIC,TZ", 0, 0), "M71", 0, 0)

\* define_excellon_drill_diameter: "T%02dC%4.3f" with the size
\* math.ceil(dia*10.0)/10.0, here in tenths
define_excellon_drill_diameter(s, n, d) ==
    LET tenths == IF d = 0 THEN Ceil(default_diameter * 10, Pow10(6))
                  ELSE IF IsFinite(d) THEN Ceil(d * 10, prec)
                  ELSE Printed(d)
    IN  [exc_line([s EXCEPT !.of = <<d>>], "TC", n, tenths)
            EXCEPT !.of = <<>>,
                   !.gw.excellon_drill_diameters = DictSet(@, d, n),
                   !.gw.excellon_drill_codes = DictSet(@, n, d)]

\* write_excellon_drills
write_excellon_drills(s) ==
    Fold(LAMBDA t, c :
            IF c = 0 THEN t
            ELSE [define_excellon_drill_diameter(t, t.gw.excellon_drill_counter, c)
                     EXCEPT !.gw.excellon_drill_counter = @ + 1],
         [s EXCEPT !.gw.excellon_drill_counter = 1],
         s.gw.circular_apertures)

\* write_excellon_select_drill
write_excellon_select_drill(s, d) ==
    IF d \notin DOMAIN s.gw.excellon_drill_diameters
    THEN [s EXCEPT !.exc = "KeyError"]
    ELSE LET req_drill_code == s.gw.excellon_drill_diameters[d]
         IN  IF s.gw.current_excellon_drill_code # req_drill_code
             THEN [exc_line([s EXCEPT !.of = <<>>], "T", req_drill_code, 0)
                      EXCEPT !.gw.current_excellon_drill_code = req_drill_code]
             ELSE s

\* exc_emit_point and the print of write_excellon_drill_point
exc_emit_point(s, p) ==
    [s EXCEPT !.out = Append(@, Line("exc", "XY", 0, <<exc_emit_coord(p[1])>>,
                                     <<exc_emit_coord(p[2])>>, 0, p, s.of))]

\* write_excellon_drill_point
write_excellon_drill_point(s, c) ==
    LET s1 == write_excellon_select_drill(s, c[DIAMETER])
    IN  IF s1.exc # "" THEN s1
        ELSE exc_emit_point([s1 EXCEPT !.of = <<c[DIAMETER]>>], PointOf(c))

\* sorted(list(self.circular_apertures)): the list sort of the set's elements,
\* taken in the order the set is iterated in
SortedDiameters(k) == listsort(k, "float")

\* the drilling loop without the test that skips diameter 0
DrillEveryDiameter(s, ent) ==
    Fold(LAMBDA t, dia :
            Fold(LAMBDA u, circle :
                    IF u.exc # "" THEN u
                    ELSE IF float_eq(circle[DIAMETER], dia)
                         THEN exc_emit_point([u EXCEPT !.of = <<dia>>], PointOf(circle))
                         ELSE u,
                 t, no_duplicates(sorted(ent.Circles))),
         s, SortedDiameters(s.gw.circular_apertures))

\* the loop of lines 559-574
ExcellonHoles(s, ent) ==
    Fold(LAMBDA t, dia :
            IF dia = 0 THEN t
            ELSE Fold(LAMBDA u, circle :
                         IF u.exc # "" THEN u
                         ELSE IF float_eq(circle[DIAMETER], dia)
                              THEN write_excellon_drill_point(u, circle) ELSE u,
                      t, no_duplicates(sorted(ent.Circles))),
         s, SortedDiameters(s.gw.circular_apertures))

\* write_excellon_trailer
write_excellon_trailer(s) == exc_line([s EXCEPT !.of = <<>>], "M30", 0, 0)

\* the with block of write_excellon_file
ExcellonBody(g, d, ent) ==
    LET s1 == write_excellon_drills(write_excellon_header(Opened(g, d)))
        s2 == ExcellonHoles(exc_line(exc_line(s1, "%", 0, 0), "G05", 0, 0), ent)
    IN  IF s2.exc # "" THEN s2 ELSE write_excellon_trailer(s2)

\* write_excellon_file
write_excellon_file(P, fname, layernames) ==
    IF P.raised # "" THEN P
    ELSE LET ent == process_dxf_for_writing(P.dxf, layernames)
             s   == ExcellonBody(P.gw, P.dxf, ent)
         IN  [gw |-> s.gw,
              dxf |-> s.dxf,
              files |-> [P.files EXCEPT ![fname] = WrittenFile(s.out)],
              raised |-> s.exc]

---------------------------------------------------------------------------
(* GerberWriter.process_cam                                                *)

\* the order in which "for extension in self.gerber_layers" visits the keys
\* is the interpreter's order of a dict, which depends on the build and on
\* the hash seed: any order of the keys
GerberExtensionOrders == Perms(DOMAIN gerber_layers)

\* the program state after the lines 604-612 of process_cam
CamStart(g, fs, d, order) ==
    [gw |-> SetAttrs(measure_dxf_file(clear_aperture_cache(g), d, order),
                     [cam_base |-> "cam"]),
     dxf |-> d, files |-> fs, raised |-> ""]

process_cam(g, fs, d, order, extensions) ==
    LET P1 == Fold(LAMBDA P, extension :
                      write_gerber_file(P, extension, gerber_layers[extension]),
                   CamStart(g, fs, d, order), extensions)
    IN  Fold(LAMBDA P, extension :
                write_excellon_file(P, extension, excellon_layers[extension]),
             P1, <<".gdd">>)

\* one more pass of "for extension in self.gerber_layers": V holds pairs of
\* the keys visited so far and the state reached; the next key is any key
\* not visited yet
VisitGerberLayer(V) ==
    UNION { { <<v[1] \cup {extension},
                write_gerber_file(v[2], extension, gerber_layers[extension])>> :
                extension \in DOMAIN gerber_layers \ v[1] } : v \in V }

\* the results of process_cam for the orders of GerberExtensionOrders, found
\* pass by pass: orders with the same keys visited and the same state
\* reached are carried on once
ProcessCamOutcomes(g, fs, d, order) ==
    LET V == Fold(LAMBDA W, k : VisitGerberLayer(W), {<<{}, CamStart(g, fs, d, order)>>},
                  [k \in 1..Cardinality(DOMAIN gerber_layers) |-> k])
    IN  { Fold(LAMBDA P, extension :
                  write_excellon_file(P, extension, excellon_layers[extension]),
               v[2], <<".gdd">>) : v \in V }

---------------------------------------------------------------------------
(* The drawings.  Each is a Drawing the reader can build and the writer    *)
(* can read: every entity has a layer, every circle a centre and a         *)
(* diameter (twice a radius, so an even number of eighths), every vertex a *)
(* point.                                                                  *)

MaxCircles == 2
MaxSortCircles == 3
MaxPolys == 2
MaxVerts == 3

Circle(layer, x, y, d) == LAYER :> layer @@ X :> x @@ Y :> y @@ DIAMETER :> d

Vertex(pt) == X :> pt[1] @@ Y :> pt[2]

\* width and flags are <<>> for a field that is absent, <<v>> for the value v
Polyline(layer, width, flags, verts) ==
    [ent |-> (LAYER :> layer)
             @@ (IF width = <<>> THEN <<>> ELSE LINEWIDTH :> width[1])
             @@ (IF flags = <<>> THEN <<>> ELSE POLYLINE_FLAGS :> flags[1]),
     VERTICES |-> verts]

\* the origin and one step along each axis
GridPoints == { <<0, 0>>, <<prec, 0>>, <<0, prec>> }

\* circles of two non-zero diameters on the grid, on a copper and a drill
\* layer, and circles of diameter 0 on the drill layer
GridCircles ==
    { Circle(l, pt[1], pt[2], d) :
        l \in {s_Top, s_DRILL}, pt \in GridPoints, d \in {prec, 2 * prec} }
    \cup { Circle(s_DRILL, pt[1], pt[2], 0) : pt \in GridPoints }

\* the same circles on one layer
SortCircles ==
    { Circle(s_Drill, pt[1], pt[2], d) : pt \in GridPoints, d \in {prec, 2 * prec} }

\* circles at the point (-1.0, 1.0): of diameter 0 and 2.0 on a copper layer,
\* of diameter 0 on the drill layer, of diameter 2.0 on the polylines' layer
PlotCircles ==
    { Circle(s_bottom, -prec, prec, d) : d \in {0, 2 * prec} }
    \cup { Circle(s_Drill, -prec, prec, 0), Circle(s_Top, -prec, prec, 2 * prec) }

\* a path of MaxVerts vertices that starts at (-1.0, 0.0)
PlotPath ==
    [i \in 1..MaxVerts |->
        Vertex(IF i = 1 THEN <<-prec, 0>> ELSE <<prec, (i % 2) * prec>>)]

\* polylines along the whole path, with and without a width, open and closed
PlotPolylines ==
    { Polyline(s_top_copper, w, fl, PlotPath) :
        w \in {<<>>, <<prec>>}, fl \in {<<>>, <<1>>} }

\* the same polylines cut short, to no vertex and to one, and a polyline whose
\* width is a nan
ShortPolylines ==
    { Polyline(s_top_copper, w, fl, SubSeq(PlotPath, 1, k)) :
        w \in {<<>>, <<prec>>}, fl \in {<<>>, <<1>>}, k \in {0, 1} }
    \cup { Polyline(s_top_copper, <<NaN>>, <<>>, PlotPath) }

\* the lists of up to MaxPolys whole polylines, and the lists in which a short
\* polyline stands alone, in front of another polyline or behind one
PlotLists ==
    SeqsUpTo(PlotPolylines, MaxPolys)
    \cup { <<a>> : a \in ShortPolylines }
    \cup { <<a, b>> : a \in ShortPolylines, b \in PlotPolylines \cup ShortPolylines }
    \cup { <<b, a>> : a \in ShortPolylines, b \in PlotPolylines }

\* no nan object is the width of two polylines or the diameter of two
\* circles: the reader makes a new object for every field
OneObjectEach(d) ==
    /\ \A i, j \in DOMAIN d.polylines :
          (i # j /\ LINEWIDTH \in DOMAIN d.polylines[i].ent
                 /\ LINEWIDTH \in DOMAIN d.polylines[j].ent
                 /\ IsNaN(d.polylines[i].ent[LINEWIDTH]))
             => d.polylines[i].ent[LINEWIDTH] # d.polylines[j].ent[LINEWIDTH]
    /\ \A i, j \in DOMAIN d.circles :
          (i # j /\ IsNaN(d.circles[i][DIAMETER]))
             => d.circles[i][DIAMETER] # d.circles[j][DIAMETER]

\* polylines that differ in layer name and flags
LayeredPolylines ==
    { Polyline(l, <<prec>>, fl, <<Vertex(<<0, prec>>), Vertex(<<prec, prec>>)>>) :
        l \in {s_Top, s_top_copper, s_bottom, s_0},
        fl \in {<<>>, <<0>>, <<1>>, <<2>>, <<3>>} }

GridDrawings ==
    { [circles |-> cs, polylines |-> <<>>] : cs \in SeqsUpTo(GridCircles, MaxCircles) }

SortDrawings ==
    { [circles |-> cs, polylines |-> <<>>] :
        cs \in SeqsUpTo(SortCircles, MaxSortCircles) }

PlotDrawings ==
    { d \in { [circles |-> cs, polylines |-> ps] :
                cs \in SeqsUpTo(PlotCircles, 1),
                ps \in PlotLists } : OneObjectEach(d) }

LayeredDrawings ==
    { [circles |-> <<>>, polylines |-> ps] : ps \in SeqsUpTo(LayeredPolylines, MaxPolys) }

---------------------------------------------------------------------------
(* The state before the first call                                         *)

Extensions == DOMAIN gerber_layers \cup DOMAIN excellon_layers

\* a file left in the output directory by an earlier run of the program
StaleFile ==
    [exists |-> TRUE, lines |-> <<Line("text", "stale", 0, <<>>, <<>>, 0, NoPoint, <<>>)>>]

NoEntities == [Tracks |-> <<>>, Regions |-> <<>>, Circles |-> <<>>]

NoProbe == [args |-> <<>>, results |-> <<>>]

ReaderIdle == [pc |-> "idle"]

NoStream == [lines |-> <<>>, pos |-> 1, eof_reads |-> 0, records |-> <<>>]

InitWriter ==
    /\ gw = NewGerberWriter
    /\ raised = ""
    /\ entities = NoEntities
    /\ request = <<>>
    /\ holes = <<>>
    /\ probe = NoProbe
    /\ f = NoStream
    /\ rd = ReaderIdle

\* what no method of the writer is handed
WriterFrame == UNCHANGED <<entities, request, holes, f, rd, probe>>

---------------------------------------------------------------------------
(* Specification Spec: the main program's run of process_cam on a parsed   *)
(* drawing, the output directory empty or holding an earlier run's files   *)

Init ==
    /\ InitWriter
    /\ dxf \in GridDrawings \cup PlotDrawings
    /\ \E stale \in BOOLEAN :
          files = [e \in Extensions |-> IF stale THEN StaleFile ELSE NoFile]

\* g = GerberWriter(); g.process_cam(d)
ProcessCam ==
    /\ gw = NewGerberWriter
    /\ \E order \in Perms(MeasuredDiameters(dxf)) :
       \E P \in ProcessCamOutcomes(gw, files, dxf, order) :
              /\ gw' = P.gw
              /\ dxf' = P.dxf
              /\ files' = P.files
              /\ raised' = P.raised
    /\ WriterFrame

Next == ProcessCam

Spec == Init /\ [][Next]_vars

---------------------------------------------------------------------------
(* Specification SpecCalls: the writer's methods called one after another  *)
(* on one GerberWriter                                                     *)

\* circles of two diameters on a copper and a drill layer
CallCircles ==
    { Circle(l, prec, prec, d) : l \in {s_Top, s_Drill}, d \in {prec, 2 * prec} }

\* two circles whose diameters are nan objects
NaNCircles == { Circle(s_Top, prec, prec, NaNObject(i)) : i \in {0, 1} }

\* the lists of up to MaxCircles circles, and the lists in which a circle of
\* diameter nan stands alone, in front of another circle or behind one
CallLists ==
    SeqsUpTo(CallCircles, MaxCircles)
    \cup { <<a>> : a \in NaNCircles }
    \cup { <<a, b>> : a \in NaNCircles, b \in CallCircles \cup NaNCircles }
    \cup { <<b, a>> : a \in NaNCircles, b \in CallCircles }

CallPolylines ==
    { Polyline(s_Top, w, fl, <<Vertex(<<0, prec>>), Vertex(<<prec, prec>>)>>) :
        w \in {<<>>, <<prec>>}, fl \in {<<>>, <<1>>} }

CallDrawings ==
    { d \in { [circles |-> cs, polylines |-> ps] :
                cs \in CallLists,
                ps \in SeqsUpTo(CallPolylines, 1) } : OneObjectEach(d) }

InitCalls ==
    /\ InitWriter
    /\ dxf \in CallDrawings
    /\ files = [e \in Extensions |-> NoFile]

\* the whole drawing has been measured (process_cam measures before it writes)
Measured == MeasuredDiameters(dxf) \subseteq Range(gw.circular_apertures)

\* g.measure_dxf_file(d)
MeasureDxfFile ==
    /\ raised = ""
    /\ \E order \in IterationOrders(gw, dxf) :
          gw' = measure_dxf_file(gw, dxf, order)
    /\ UNCHANGED <<dxf, files, raised>>
    /\ WriterFrame

\* g.write_gerber_file(cam_base+extension, d, gerber_layers[extension])
WriteGerberFile ==
    /\ raised = ""
    /\ Measured
    /\ \E extension \in DOMAIN gerber_layers :
       \E P \in { write_gerber_file(
                      [gw |-> gw, dxf |-> dxf, files |-> files, raised |-> ""],
                      extension, gerber_layers[extension]) } :
              /\ gw' = P.gw
              /\ dxf' = P.dxf
              /\ files' = P.files
              /\ raised' = P.raised
    /\ WriterFrame

\* g.write_excellon_file(cam_base+extension, d, excellon_layers[extension])
WriteExcellonFile ==
    /\ raised = ""
    /\ Measured
    /\ \E extension \in DOMAIN excellon_layers :
       \E P \in { write_excellon_file(
                      [gw |-> gw, dxf |-> dxf, files |-> files, raised |-> ""],
                      extension, excellon_layers[extension]) } :
              /\ gw' = P.gw
              /\ dxf' = P.dxf
              /\ files' = P.files
              /\ raised' = P.raised
    /\ WriterFrame

\* polygons given to emit_region under the key it reads
RegionSketches ==
    { [VERTICIES |-> <<>>],
      [VERTICIES |-> << <<0, prec>>, <<prec, prec>> >>],
      [VERTICIES |-> << <<0, NaN>> >>] }

\* with open(cam_base+'.gbo','w') as f: g.emit_region(f, poly)
EmitRegion ==
    /\ raised = ""
    /\ \E poly \in Range(dxf.polylines) \cup RegionSketches :
       \E s \in { emit_region(Opened(gw, dxf), poly) } :
              /\ gw' = s.gw
              /\ dxf' = s.dxf
              /\ files' = [files EXCEPT ![".gbo"] = WrittenFile(s.out)]
              /\ raised' = s.exc
    /\ WriterFrame

NextCalls == MeasureDxfFile \/ WriteGerberFile \/ WriteExcellonFile \/ EmitRegion

SpecCalls == InitCalls /\ [][NextCalls]_vars

---------------------------------------------------------------------------
(* Specification SpecClassify: the classifier and the circle filter        *)

\* alias lists of the layer tables, and lists whose entries match one another
\* or match nothing
AliasLists ==
    { gerber_layers[".gtl"], gerber_layers[".gbl"], excellon_layers[".gdd"],
      <<s_Top, s_top_copper, s_TopCopper>>, <<s_0, s_bottom>>, <<>> }

InitClassify ==
    /\ InitWriter
    /\ dxf \in SortDrawings \cup LayeredDrawings
    /\ files = [e \in Extensions |-> NoFile]

\* entities = self.process_dxf_for_writing(dxf,layernames)
ProcessDxfForWriting ==
    /\ request = <<>>
    /\ \E names \in AliasLists :
          /\ request' = names
          /\ entities' = process_dxf_for_writing(dxf, names)
    /\ UNCHANGED <<dxf, gw, files, raised, holes, f, rd, probe>>

\* holes = list(self.no_duplicates(sorted(entities['Circles'],cmp=self.XthenY)))
SortAndFilter ==
    /\ holes' = no_duplicates(sorted(entities.Circles))
    /\ UNCHANGED <<dxf, gw, files, raised, entities, request, f, rd, probe>>

NextClassify == ProcessDxfForWriting \/ SortAndFilter

SpecClassify == InitClassify /\ [][NextClassify]_vars

---------------------------------------------------------------------------
(* Specification SpecPasses: classification and emission passes over one   *)
(* drawing, in any order                                                   *)

NextPasses == NextCalls \/ ProcessDxfForWriting

SpecPasses == InitCalls /\ [][NextPasses]_vars

---------------------------------------------------------------------------
(* class DXFFile: the record reader                                        *)

DecimalDigits == <<"0","1","2","3","4","5","6","7","8","9">>

HexLetters == <<"a","b","c","d","e","f">>

\* the value of one digit character in the given base, -1 if it is not one
DigitValue(c, base) ==
    IF \E i \in 1..10 : DecimalDigits[i] = c
    THEN (CHOOSE i \in 1..10 : DecimalDigits[i] = c) - 1
    ELSE IF base = 16 /\ \E i \in 1..6 : HexLetters[i] = c \/ UpperCase[i] = c
    THEN 9 + (CHOOSE i \in 1..6 : HexLetters[i] = c \/ UpperCase[i] = c)
    ELSE -1

IsSign(c) == c \in {"+", "-"}

SignOf(t) == IF t # <<>> /\ t[1] = "-" THEN -1 ELSE 1

Unsigned(t) == IF t # <<>> /\ IsSign(t[1]) THEN Tail(t) ELSE t

AllDigits(t, base) == \A i \in DOMAIN t : DigitValue(t[i], base) >= 0

DigitsValue(t, base) ==
    LET Shift(acc, c) == acc * base + DigitValue(c, base)
    IN  Fold(Shift, 0, t)

\* the digits of an integer text, its sign taken off
IntDigits(sign, body, base) ==
    IF body = <<>> \/ ~AllDigits(body, base) THEN <<>>
    ELSE <<sign * DigitsValue(body, base)>>

\* base 16 takes "0x" in front of its digits
IntBody(sign, u, base) ==
    IntDigits(sign,
              IF base = 16 /\ Len(u) >= 2 /\ u[1] = "0" /\ u[2] \in {"x", "X"}
              THEN Tail(Tail(u)) ELSE u,
              base)

\* white space is skipped between the sign and the digits
IntSigned(t1, base) == IntBody(SignOf(t1), lstrip(Unsigned(t1)), base)

\* int(t) and int(t,16): <<>> for ValueError, else <<n>>
ParseInt(t, base) == IntSigned(strip(t), base)

\* a float that is no number is written as a fraction of denominator 0
FloatInf == <<1, 0>>
FloatNegInf == <<-1, 0>>
FloatNaN == <<0, 0>>

RECURSIVE StripZeros(_)
StripZeros(t) == IF t # <<>> /\ Head(t) = "0" THEN StripZeros(Tail(t)) ELSE t

\* the place of the first character of u that is in S, Len(u) + 1 if none
FirstOf(u, S) ==
    IF \E i \in DOMAIN u : u[i] \in S
    THEN CHOOSE i \in DOMAIN u : u[i] \in S /\ \A j \in 1..(i - 1) : u[j] \notin S
    ELSE Len(u) + 1

\* the parts of the text of a float: kind is "bad" for a text float()
\* rejects, "inf" or "nan" for those words, else "num" with the sign, the
\* digits sig of the mantissa from the first that is not 0, and the power k
\* of ten that sig is multiplied by
FloatPart(kind, sign, sig, k) == [kind |-> kind, sign |-> sign, sig |-> sig, k |-> k]

\* the digits before and after the point, and the exponent ex
FloatDigits(sign, whole, frac, ex) ==
    IF whole \o frac = <<>> \/ ~AllDigits(whole \o frac, 10)
    THEN FloatPart("bad", 1, <<>>, 0)
    ELSE FloatPart("num", sign, StripZeros(whole \o frac), ex - Len(frac))

\* the mantissa is cut at its first point
FloatMantissa(sign, mant, dot, ex) ==
    FloatDigits(sign, SubSeq(mant, 1, dot - 1), SubSeq(mant, dot + 1, Len(mant)), ex)

\* the exponent is a sign, or none, and digits
FloatExponent(sign, mant, ex) ==
    IF Unsigned(ex) = <<>> \/ ~AllDigits(Unsigned(ex), 10)
    THEN FloatPart("bad", 1, <<>>, 0)
    ELSE FloatMantissa(sign, mant, FirstOf(mant, {"."}),
                       SignOf(ex) * DigitsValue(Unsigned(ex), 10))

\* the text is cut at its first "e" or "E", at e1
FloatNumber(sign, u, e1) ==
    IF e1 > Len(u) THEN FloatMantissa(sign, u, FirstOf(u, {"."}), 0)
    ELSE FloatExponent(sign, SubSeq(u, 1, e1 - 1), SubSeq(u, e1 + 1, Len(u)))

\* "inf", "infinity" and "nan" are taken in any case
FloatWord(sign, u, word) ==
    IF word \in { <<"i","n","f">>, <<"i","n","f","i","n","i","t","y">> }
    THEN FloatPart("inf", sign, <<>>, 0)
    ELSE IF word = <<"n","a","n">> THEN FloatPart("nan", sign, <<>>, 0)
    ELSE FloatNumber(sign, u, FirstOf(u, {"e", "E"}))

FloatSigned(t1) == FloatWord(SignOf(t1), Unsigned(t1), lower(Unsigned(t1)))

FloatParts(a) == FloatSigned(strip(a))

\* The decimal digits of 2^1024 - 2^970, the number half way between the
\* largest float and 2^1024: float() gives an infinity for a text of this size
\* or more (the tie goes to the even mantissa, that of 2^1024), and the
\* largest float for a text of less.
FloatOverflow ==
    <<1,7,9,7,6,9,3,1,3,4,8,6,2,3,1,5,8,0,7,9,3,7,2,8,9,7,1,4,0,5,
       3,0,3,4,1,5,0,7,9,9,3,4,1,3,2,7,1,0,0,3,7,8,2,6,9,3,6,1,7,3,
       7,7,8,9,8,0,4,4,4,9,6,8,2,9,2,7,6,4,7,5,0,9,4,6,6,4,9,0,1,7,
       9,7,7,5,8,7,2,0,7,0,9,6,3,3,0,2,8,6,4,1,6,6,9,2,8,8,7,9,1,0,
       9,4,6,5,5,5,5,4,7,8,5,1,9,4,0,4,0,2,6,3,0,6,5,7,4,8,8,6,7,1,
       5,0,5,8,2,0,6,8,1,9,0,8,9,0,2,0,0,0,7,0,8,3,8,3,6,7,6,2,7,3,
       8,5,4,8,4,5,8,1,7,7,1,1,5,3,1,7,6,4,4,7,5,7,3,0,2,7,0,0,6,9,
       8,5,5,5,7,1,3,6,6,9,5,9,6,2,2,8,4,2,9,1,4,8,1,9,8,6,0,8,3,4,
       9,3,6,4,7,5,2,9,2,7,1,9,0,7,4,1,6,8,4,4,4,3,6,5,5,1,0,7,0,4,
       3,4,2,7,1,1,5,5,9,6,9,9,5,0,8,0,9,3,0,4,2,8,8,0,1,7,7,9,0,4,
       1,7,4,4,9,7,7,9,2>>

\* The decimal digits of 2^1021 - 2^967, an eighth of FloatOverflow: the float
\* of a text of this size or more is 2^1021 or more, and its product with
\* prec = 8 is an infinity.
ProductOverflow ==
    <<2,2,4,7,1,1,6,4,1,8,5,7,7,8,9,4,7,5,9,9,2,1,6,1,2,1,4,2,5,6,
       6,2,9,2,6,8,8,4,9,9,1,7,6,6,5,8,8,7,5,4,7,2,8,3,6,7,0,2,1,7,
       2,2,3,7,2,5,5,5,6,2,1,0,3,6,5,9,5,5,9,3,8,6,8,3,3,1,1,2,7,2,
       4,7,1,9,8,4,0,0,8,8,7,0,4,1,2,8,5,8,0,2,0,8,6,6,1,0,9,8,8,8,
       6,8,3,1,9,4,4,3,4,8,1,4,9,2,5,5,0,3,2,8,8,3,2,1,8,6,0,8,3,9,
       3,8,2,2,7,5,8,5,2,3,8,6,1,2,7,5,0,0,8,8,5,4,7,9,5,9,5,3,4,2,
       3,1,8,5,5,7,2,7,2,1,3,9,4,1,4,7,0,5,5,9,4,6,6,2,8,3,7,5,8,7,
       3,1,9,4,6,4,2,0,8,6,9,9,5,2,8,5,5,3,6,4,3,5,2,4,8,2,6,0,4,3,
       6,7,0,5,9,4,1,1,5,8,9,8,8,4,2,7,1,0,5,5,5,4,5,6,8,8,8,3,8,0,
       4,2,8,3,8,9,4,4,9,6,2,4,3,8,5,1,1,6,3,0,3,6,0,0,2,2,2,3,8,0,
       2,1,8,1,2,2,2,4>>

\* the digits d, zeros put after them, are at least the digits T: of two
\* whole numbers of as many digits, or of two decimals
DigitsAtLeast(d, T) ==
    LET at(i) == IF i <= Len(d) THEN d[i] ELSE 0
        differ == { i \in DOMAIN T : at(i) # T[i] }
    IN  \/ differ = {}
        \/ LET i == CHOOSE i \in differ : \A j \in differ : i <= j
           IN  at(i) > T[i]

\* the size of sig * 10^k is at least the whole number of digits T
AtLeast(q, T) ==
    /\ q.sig # <<>>
    /\ \/ Len(q.sig) + q.k > Len(T)
       \/ Len(q.sig) + q.k = Len(T) /\ DigitsAtLeast([i \in DOMAIN q.sig |-> DigitValue(q.sig[i], 10)], T)

\* the decimal number <<numerator, denominator>> that a text of parts q
\* denotes, before float() rounds it to a double
DecimalValue(q) ==
    CASE q.kind = "bad" -> <<>>
      [] q.kind = "nan" -> FloatNaN
      [] q.kind = "inf" -> IF q.sign < 0 THEN FloatNegInf ELSE FloatInf
      [] q.kind = "num" ->
            IF AtLeast(q, FloatOverflow)
            THEN IF q.sign < 0 THEN FloatNegInf ELSE FloatInf
            ELSE IF q.sig = <<>> THEN <<0, 1>>
            ELSE IF q.k >= 0
            THEN <<q.sign * DigitsValue(q.sig, 10) * Pow10(q.k), 1>>
            ELSE <<q.sign * DigitsValue(q.sig, 10), Pow10(-q.k)>>

\* the decimal number of the text a: <<>> for a text float(a) rejects
RawDecimal(a) == DecimalValue(FloatParts(a))

\* DXFFile.__init__: self.parse, the parser of each known group code
parse ==
    [k \in {X, Y, Z, LINEWIDTH, BULGE, DIAMETER} |-> "round"]
    @@ (LAYER :> "str") @@ (POLYLINE_FLAGS :> "int")

\* A finite float is held as its count of eighths, of MaxEighths at most in
\* size: these counts are clear of the numbers that stand for the infinities
\* and the nans, and twice such a count is within the integers of the model.
\* No value is given to a count of a larger size.
MaxEighths == 999999999

Eighths(n) == [v \in (-MaxEighths)..MaxEighths |-> v][n]

\* the digits, first the most significant, of c times the number of digits
\* d, plus carry: c is one digit
RECURSIVE MulDigits(_, _, _)
MulDigits(d, c, carry) ==
    IF d = <<>> THEN IF carry = 0 THEN <<>> ELSE <<carry>>
    ELSE LET v == d[Len(d)] * c + carry
         IN  Append(MulDigits(SubSeq(d, 1, Len(d) - 1), c, v \div 10), v % 10)

\* the digits of 5^n
RECURSIVE PowerOfFive(_)
PowerOfFive(n) == IF n = 0 THEN <<1>> ELSE MulDigits(PowerOfFive(n - 1), 5, 0)

\* the n decimals of 1/2 - 2^(-n), which is (5 * 10^(n-1) - 5^n) / 10^n:
\* 5^n ends in 5 and has fewer than n digits
HalfLess ==
    [n \in 2..55 |->
        LET P == PowerOfFive(n)
            pad == n - Len(P)
        IN  [i \in 1..n |->
                IF i = n THEN 5
                ELSE (IF i = 1 THEN 4 ELSE 9) - (IF i <= pad THEN 0 ELSE P[i - pad])]]

\* the place of the top bit of w
RECURSIVE Log2(_)
Log2(w) == IF w < 2 THEN 0 ELSE 1 + Log2(w \div 2)

\* Python 2 round(), to the nearest integer and a tie away from zero, of the
\* double that float() makes of the whole number w and the decimals F, times
\* sign.  A double has 53 bits, and float() gives the double nearest to the
\* number of the text, a tie going to the even mantissa.  w + 1/2 is a double
\* of even mantissa, and the double below it is 2^(b-52) less, b the place of
\* the top bit of w (2^(-54) less for w = 0, 1/2 being a power of two): the
\* double is w + 1/2 or more for a text of w + 1/2 - 2^(b-53) or more.
Round(sign, w, F) ==
    LET T == HalfLess[IF w = 0 THEN 55 ELSE 53 - Log2(w)]
    IN  Eighths(sign * (IF DigitsAtLeast(F, T) THEN w + 1 ELSE w))

\* round(float(a)*self.prec)/self.prec of a text of parts q: <<>> for
\* ValueError, else <<the value stored>>.  round() and the division by prec
\* leave an infinity and a nan as they are.  The product by prec = 8 is
\* exact: it is the double of the number of the digits m, of which the last
\* -k are decimals, and a product below 0.1 is rounded to 0
RoundedValue(q) ==
    IF q.kind = "bad" THEN <<>>
    ELSE IF q.kind = "nan" THEN <<NaN>>
    ELSE IF q.kind = "inf" \/ AtLeast(q, ProductOverflow)
    THEN <<IF q.sign < 0 THEN NegInf ELSE PosInf>>
    ELSE IF q.sig = <<>> THEN <<0>>
    ELSE LET m == MulDigits([i \in DOMAIN q.sig |-> DigitValue(q.sig[i], 10)], prec, 0)
             w == Len(m) + q.k
             Shift(acc, c) == acc * 10 + c
         IN  IF w < 0 THEN <<0>>
             ELSE IF q.k >= 0
             THEN <<Round(q.sign, Fold(Shift, 0, m \o [i \in 1..q.k |-> 0]), <<>>)>>
             ELSE <<Round(q.sign, Fold(Shift, 0, SubSeq(m, 1, w)),
                          SubSeq(m, w + 1, Len(m)))>>

\* self.parse[l1](l2): <<>> for ValueError, else <<the value stored>>
ParseValue(l1, l2) ==
    CASE parse[l1] = "round" -> RoundedValue(FloatParts(l2))
      [] parse[l1] = "str" -> <<l2>>
      [] parse[l1] = "int" -> ParseInt(l2, 10)

\* f.readline(): the next line, or '' for ever once the stream is exhausted
readline(s) ==
    IF s.pos <= Len(s.lines)
    THEN [line |-> s.lines[s.pos], f |-> [s EXCEPT !.pos = @ + 1]]
    ELSE [line |-> <<>>, f |-> [s EXCEPT !.eof_reads = @ + 1]]

l_EOF == <<"E","O","F">>
l_CIRCLE == <<"C","I","R","C","L","E">>
l_POLYLINE == <<"P","O","L","Y","L","I","N","E">>
l_VERTEX == <<"V","E","R","T","E","X">>
l_SEQEND == <<"S","E","Q","E","N","D">>
l_0 == <<" "," ","0">>

\* DXFFile.__init__: the empty lists
EmptyDrawing == [circles |-> <<>>, polylines |-> <<>>]

\* the reader's locals: where control is, who called read_entity, and the
\* locals of read_entity (results) and read_polyline (this_entity, result)
ReaderStart ==
    [pc |-> "read_dxf_file", caller |-> "", results |-> EmptyDict,
     this_entity |-> EmptyDict, result |-> <<>>]

\* read_circle after read_entity has returned c; twice an infinity is the
\* infinity, and twice a nan is a nan object in the place of the first
read_circle(d, c) ==
    LET c2 == IF DIAMETER \in DOMAIN c
              THEN DictSet(c, DIAMETER,
                           IF IsFinite(c[DIAMETER]) THEN c[DIAMETER] * 2
                           ELSE c[DIAMETER])
              ELSE c
    IN  [d EXCEPT !.circles = Append(@, c2)]

MaxEofReads == 3

\* the numbers an entity holds
NumbersOf(e) == { e[k] : k \in DOMAIN e \ {LAYER} }

\* the numbers held by the drawing and by the reader's locals
LiveNumbers ==
    UNION { NumbersOf(c) : c \in Range(dxf.circles) }
    \cup UNION { NumbersOf(p.ent) \cup UNION { NumbersOf(v) : v \in Range(p.VERTICES) } :
                   p \in Range(dxf.polylines) }
    \cup NumbersOf(rd.results) \cup NumbersOf(rd.this_entity)
    \cup UNION { NumbersOf(v) : v \in Range(rd.result) }

\* the nan objects not in use
FreeNaNs == { i \in 0..(MaxNaNs - 1) : NaNObject(i) \notin LiveNumbers }

\* the value the parser of group code l1 returns, as the object stored:
\* every nan is a new object
Stored(l1, v) ==
    IF parse[l1] = "round" /\ IsNaN(v)
    THEN NaNObject(CHOOSE i \in FreeNaNs : \A j \in FreeNaNs : i <= j)
    ELSE v

\* one pass of the loop of read_dxf_file
ReadDxfFileStep ==
    /\ rd.pc = "read_dxf_file"
    /\ raised = ""
    /\ f.eof_reads < MaxEofReads
    /\ LET r == readline(f)
           l == strip(r.line)
       IN  /\ f' = r.f
           /\ rd' = IF l = l_EOF THEN [rd EXCEPT !.pc = "done"]
                    ELSE IF l = l_POLYLINE
                    THEN [rd EXCEPT !.pc = "read_entity", !.caller = "read_polyline",
                                    !.results = EmptyDict, !.result = <<>>]
                    ELSE IF l = l_CIRCLE
                    THEN [rd EXCEPT !.pc = "read_entity", !.caller = "read_circle",
                                    !.results = EmptyDict]
                    ELSE rd
    /\ UNCHANGED <<dxf, raised, gw, files, entities, request, holes, probe>>

\* one pass of the loop of read_entity; on break, the return to its caller
ReadEntityStep ==
    /\ rd.pc = "read_entity"
    /\ raised = ""
    /\ f.eof_reads < MaxEofReads
    /\ FreeNaNs # {}
    /\ LET r1 == readline(f)
           t == strip(r1.line)
           dec == ParseInt(t, 10)
           hex == ParseInt(t, 16)
           l1 == IF dec # <<>> THEN dec ELSE hex
           r2 == readline(r1.f)
           l2 == strip(r2.line)
       IN  IF l1 = <<>>
           THEN \* neither int(t) nor int(t,16): the next line is read and dropped
                /\ f' = r2.f
                /\ UNCHANGED <<rd, dxf, raised>>
           ELSE IF l1[1] = 0
           THEN /\ f' = r1.f
                /\ raised' = raised
                /\ CASE rd.caller = "read_circle" ->
                          /\ dxf' = read_circle(dxf, rd.results)
                          /\ rd' = [rd EXCEPT !.pc = "read_dxf_file"]
                     [] rd.caller = "read_polyline" ->
                          /\ dxf' = dxf
                          /\ rd' = [rd EXCEPT !.pc = "read_polyline",
                                              !.this_entity = rd.results]
                     [] rd.caller = "read_vertex" ->
                          /\ dxf' = dxf
                          /\ rd' = [rd EXCEPT !.pc = "read_polyline",
                                              !.result = Append(@, rd.results)]
           ELSE IF l1[1] \in DOMAIN parse
           THEN /\ f' = r2.f
                /\ dxf' = dxf
                /\ LET v == ParseValue(l1[1], l2)
                   IN  IF v = <<>>
                       THEN raised' = "ValueError" /\ rd' = rd
                       ELSE /\ raised' = raised
                            /\ rd' = [rd EXCEPT !.results = DictSet(@, l1[1], Stored(l1[1], v[1]))]
           ELSE /\ f' = r1.f
                /\ UNCHANGED <<rd, dxf, raised>>
    /\ UNCHANGED <<gw, files, entities, request, holes, probe>>

\* one pass of the loop of read_polyline; on SEQEND, the rest of the method
ReadPolylineStep ==
    /\ rd.pc = "read_polyline"
    /\ raised = ""
    /\ f.eof_reads < MaxEofReads
    /\ LET r == readline(f)
           l == strip(r.line)
       IN  /\ f' = r.f
           /\ IF l = l_SEQEND
              THEN /\ dxf' = [dxf EXCEPT !.polylines =
                                 Append(@, [ent |-> rd.this_entity, VERTICES |-> rd.result])]
                   /\ rd' = [rd EXCEPT !.pc = "read_dxf_file"]
              ELSE IF l = l_VERTEX
              THEN /\ dxf' = dxf
                   /\ rd' = [rd EXCEPT !.pc = "read_entity", !.caller = "read_vertex",
                                       !.results = EmptyDict]
              ELSE UNCHANGED <<dxf, rd>>
    /\ UNCHANGED <<raised, gw, files, entities, request, holes, probe>>

---------------------------------------------------------------------------
(* Input streams: DXF records written out as lines.  A record is           *)
(* [kind, pairs, vertices]: the group code / value pairs of the entity and,*)
(* for a polyline, the pairs of each of its VERTEX records.                *)

MaxRecords == 2
MaxPairs == 2
MaxVertexRecords == 2

p_layer == << <<"8">>, s_Top >>
p_x == << <<" ","1","0">>, <<"1",".","0">> >>
p_y == << <<" ","2","0">>, <<"-","0",".","5">> >>
p_radius == << <<"4","0">>, <<"0",".","5">> >>
p_flags == << <<"7","0">>, <<"1">> >>
\* pairs whose group code the reader has no parser for
p_colour == << <<"6","2">>, <<"7">> >>
p_colour10 == << <<"6","2">>, <<"1","0">> >>
p_linetype == << <<"6">>, <<"C","O","N","T","I","N","U","O","U","S">> >>
p_handle == << <<"5">>, <<"2","A">> >>
p_thickness == << <<"3","9">>, <<"0">> >>
p_follow == << <<"6","6">>, <<"1">> >>

CirclePairs ==
    { p_layer, p_x, p_radius, p_colour, p_colour10, p_linetype, p_handle, p_thickness }

PolylinePairs == { p_layer, p_flags, p_follow }

VertexPairLists == { <<p_x, p_y>>, <<p_x>>, <<p_colour10, p_y>> }

CircleRecords ==
    { [kind |-> l_CIRCLE, pairs |-> ps, vertices |-> <<>>] :
        ps \in SeqsUpTo(CirclePairs, MaxPairs) }

PolylineRecords ==
    { [kind |-> l_POLYLINE, pairs |-> ps, vertices |-> vs] :
        ps \in SeqsUpTo(PolylinePairs, MaxPairs),
        vs \in SeqsUpTo(VertexPairLists, MaxVertexRecords) }

InputRecords ==
    SeqsUpTo(CircleRecords, MaxRecords) \cup SeqsUpTo(PolylineRecords, 1)

\* code line, value line, code line, value line, ...
PairLines(pairs) ==
    LET Two(acc, p) == acc \o <<p[1], p[2]>>
    IN  Fold(Two, <<>>, pairs)

RecordLines(rec) ==
    LET Vtx(acc, v) == acc \o <<l_0, l_VERTEX>> \o PairLines(v)
    IN  <<l_0, rec.kind>> \o PairLines(rec.pairs)
        \o (IF rec.kind = l_POLYLINE
            THEN Fold(Vtx, <<>>, rec.vertices) \o <<l_0, l_SEQEND>>
            ELSE <<>>)

\* the whole file: every record, then the closing 0 / EOF pair
FileLines(recs) ==
    LET One(acc, rec) == acc \o RecordLines(rec)
    IN  Fold(One, <<>>, recs) \o <<l_0, l_EOF>>

\* a file, whole or cut short by up to three lines
InputStreams ==
    { [lines |-> SubSeq(FileLines(recs), 1, Len(FileLines(recs)) - cut),
       pos |-> 1, eof_reads |-> 0, records |-> recs] :
        recs \in InputRecords, cut \in 0..3 }

IsWhole(s) == s.lines = FileLines(s.records)

\* Files of one entity whose fields are numbers written in decimal: exact
\* eighths, values between two eighths, and a value half way between two
MaxFields == 2

RawNumbers ==
    { <<"1",".","0">>, <<"-","0",".","5">>, <<"0",".","3">>,
      <<"0",".","0","6","2","5">>, <<"-",".","1","9">>,
      <<"5","e","-","1">>, <<"i","n","f">>, <<"N","a","N">> }

NumberPairs ==
    { <<c, v>> : c \in { <<" ","1","0">>, <<"4","0">> }, v \in RawNumbers }

NumberRecords ==
    { [kind |-> l_CIRCLE, pairs |-> ps, vertices |-> <<>>] :
        ps \in SeqsUpTo(NumberPairs, MaxFields) }
    \cup { [kind |-> l_POLYLINE, pairs |-> hd, vertices |-> <<vp>>] :
             hd \in { <<>>, << <<<<"4","1">>, <<"0",".","3">>>> >>,
                             << <<<<"4","0">>, <<"0",".","3">>>> >> },
             vp \in SeqsUpTo(NumberPairs, MaxFields) }

NumberStreams ==
    { [lines |-> FileLines(<<rec>>), pos |-> 1, eof_reads |-> 0,
       records |-> <<rec>>] : rec \in NumberRecords }

---------------------------------------------------------------------------
(* Specification SpecRead: DXFFile(fname) reading one input stream         *)

\* DXFFile(fname) has made its empty lists and is about to read the stream
InitReader ==
    /\ gw = NewGerberWriter
    /\ raised = ""
    /\ entities = NoEntities
    /\ request = <<>>
    /\ holes = <<>>
    /\ probe = NoProbe
    /\ files = [e \in Extensions |-> NoFile]
    /\ dxf = EmptyDrawing
    /\ rd = ReaderStart

InitRead ==
    /\ InitReader
    /\ f \in InputStreams

NextRead == ReadDxfFileStep \/ ReadEntityStep \/ ReadPolylineStep

SpecRead == InitRead /\ [][NextRead]_vars

---------------------------------------------------------------------------
(* Specification SpecParse: DXFFile(fname) reading a file of one entity    *)
(* with numeric fields                                                     *)

InitParse ==
    /\ InitReader
    /\ f \in NumberStreams

SpecParse == InitParse /\ [][NextRead]_vars

---------------------------------------------------------------------------
(* Reading the output directory                                            *)

\* the alias list of each output file
RoleLayers == gerber_layers @@ excellon_layers

\* the files this program wrote (not absent, not left by an earlier run)
Written(e) == files[e].exists /\ files[e] # StaleFile

WrittenArtwork == { e \in DOMAIN gerber_layers : Written(e) }

WrittenDrill == { e \in DOMAIN excellon_layers : Written(e) }

LinesOf(e) == files[e].lines

Origin == <<0, 0>>

\* the role has no track, no region and no circle
RoleEmpty(e) ==
    LET ent == process_dxf_for_writing(dxf, RoleLayers[e])
    IN  ent.Tracks = <<>> /\ ent.Regions = <<>> /\ ent.Circles = <<>>

\* the (code, diameter) pairs of the definition lines `sym` of a file
TableOf(e, sym) ==
    { <<LinesOf(e)[i].n, LinesOf(e)[i].of[1]>> :
        i \in { k \in DOMAIN LinesOf(e) : LinesOf(e)[k].sym = sym } }

DefinitionCount(e, sym) ==
    Cardinality({ k \in DOMAIN LinesOf(e) : LinesOf(e)[k].sym = sym })

\* one definition line per diameter of D, the codes being base..base+|D|-1
IsCodeTable(e, sym, D, base) ==
    /\ DefinitionCount(e, sym) = Cardinality(D)
    /\ { pr[2] : pr \in TableOf(e, sym) } = D
    /\ { pr[1] : pr \in TableOf(e, sym) } = base .. (base + Cardinality(D) - 1)

---------------------------------------------------------------------------
(* Claims                                                                  *)

\* C1: process_dxf_for_writing returns Tracks and Regions with no polyline in
\* both, whose union is exactly the polylines on a layer matching an alias; a
\* polyline is a Region iff it has a flags field with the closed bit set, so
\* one without a flags field is a Track and never a Region.
C1_ClassifierPartition ==
    LET T == Range(entities.Tracks)
        R == Range(entities.Regions)
        onLayer == { p \in Range(dxf.polylines) :
                       \E i \in DOMAIN request : matches(p.ent[LAYER], request[i]) }
    IN  /\ T \cap R = {}
        /\ T \cup R = onLayer
        /\ \A p \in onLayer :
              p \in R <=> /\ POLYLINE_FLAGS \in DOMAIN p.ent
                          /\ p.ent[POLYLINE_FLAGS] % 2 = 1
        /\ \A p \in onLayer :
              POLYLINE_FLAGS \notin DOMAIN p.ent => p \in T /\ p \notin R

\* a call that returned a Track without a flags field, a Region, and left out
\* a polyline of another layer
C1_Witness ==
    /\ \E p \in Range(entities.Tracks) : POLYLINE_FLAGS \notin DOMAIN p.ent
    /\ entities.Regions # <<>>
    /\ Len(request) = 2

\* C2: in every file written after the whole drawing was measured, each
\* distinct diameter of the drawing (0 for a missing width) has exactly one
\* aperture definition, the aperture codes are 10..10+n-1, each non-zero
\* diameter has exactly one tool definition, the tool codes are 1..m, and all
\* files of the run hold the same table.
C2_CodeTables ==
    /\ \A e \in WrittenArtwork :
          /\ IsCodeTable(e, "ADD", MeasuredDiameters(dxf), 10)
          /\ \A pr \in TableOf(e, "ADD") : gw.aperture_diameters[pr[2]] = pr[1]
    /\ \A e \in WrittenDrill :
          /\ IsCodeTable(e, "TC", MeasuredDiameters(dxf) \ {0}, 1)
          /\ \A pr \in TableOf(e, "TC") : gw.excellon_drill_diameters[pr[2]] = pr[1]
    /\ \A e1, e2 \in WrittenArtwork : TableOf(e1, "ADD") = TableOf(e2, "ADD")

\* a run that wrote two artwork files and the drill file for a drawing with
\* three diameters, one of them 0
C2_Witness ==
    /\ Cardinality(WrittenArtwork) >= 2
    /\ WrittenDrill # {}
    /\ Cardinality(MeasuredDiameters(dxf)) = 3
    /\ 0 \in MeasuredDiameters(dxf)

\* C3: after sorting with XthenY and filtering with no_duplicates no two
\* surviving circles have the same (X,Y), whatever their diameters and order.
C3_NoTwoAtOnePoint ==
    \A i, j \in DOMAIN holes : i # j => PointOf(holes[i]) # PointOf(holes[j])

\* C4: after process_cam completes, the file of every role (artwork or drill)
\* whose Tracks, Regions and Circles are all empty does not exist.
C4_EmptyRoleHasNoFile ==
    ("cam_base" \in DOMAIN gw /\ raised = "") =>
        \A e \in Extensions : RoleEmpty(e) => ~files[e].exists

\* C5: a drill file holds no coordinate point for a circle at the origin.
C5_NoDrillPointAtOrigin ==
    \A e \in WrittenDrill :
        \A l \in Range(LinesOf(e)) : l.sym = "XY" => l.at # Origin

\* the circles of a role that survive sorting and filtering
Surviving(e) ==
    Range(no_duplicates(sorted(process_dxf_for_writing(dxf, RoleLayers[e]).Circles)))

IsComplete(e) == LinesOf(e) # <<>> /\ LinesOf(e)[Len(LinesOf(e))].sym = "M02"

\* C6: in an artwork file no flash (D03) is at the origin; every aperture
\* select is followed at once by the move of a track or by a flash away from
\* the origin, plotted with the selected aperture (so a circle at the origin
\* selects nothing); and every surviving circle away from the origin is
\* flashed with its diameter.
C6_OriginNeverFlashed ==
    \A e \in WrittenArtwork :
        LET L == LinesOf(e)
        IN  /\ \A i \in DOMAIN L : L[i].sym = "D03" => L[i].at # Origin
            /\ \A i \in DOMAIN L :
                  L[i].sym = "D" =>
                     \/ i = Len(L) /\ raised = "StopIteration"
                     \/ /\ i < Len(L)
                        /\ L[i + 1].sym \in {"D02", "D03"}
                        /\ L[i + 1].at # Origin \/ L[i + 1].sym = "D02"
                        /\ L[i + 1].of # <<>>
                        /\ gw.aperture_diameters[L[i + 1].of[1]] = L[i].n
            /\ IsComplete(e) =>
                  \A c \in Surviving(e) :
                      PointOf(c) # Origin =>
                         \E i \in DOMAIN L : /\ L[i].sym = "D03"
                                             /\ L[i].at = PointOf(c)
                                             /\ L[i].of = <<c[DIAMETER]>>

\* an artwork file of a role with a circle at the origin and a circle of the
\* same diameter elsewhere, which holds a flash
C6_Witness ==
    \E e \in WrittenArtwork :
        /\ \E c1, c2 \in Surviving(e) : /\ PointOf(c1) = Origin
                                        /\ PointOf(c2) # Origin
                                        /\ c1[DIAMETER] = c2[DIAMETER]
        /\ \E l \in Range(LinesOf(e)) : l.sym = "D03"

\* the lines that plot with an aperture or a tool: a flash, a draw of a
\* track, a drill point
PlotsWithTool(l) == l.sym \in {"D01", "D03", "XY"} /\ l.of # <<>>

IsSelect(l) == l.sym \in {"D", "T"}

CodeFor(e, d) ==
    IF e \in DOMAIN gerber_layers THEN gw.aperture_diameters[d]
    ELSE gw.excellon_drill_diameters[d]

\* C7: every file starts with nothing selected: each flash, track draw or
\* drill point is preceded in the same file by a select command, and the last
\* select before it names its own aperture or tool code.
C7_SelectedInSameFile ==
    \A e \in Extensions :
        Written(e) =>
            LET L == LinesOf(e)
            IN  \A i \in DOMAIN L :
                    PlotsWithTool(L[i]) =>
                        \E j \in 1..(i - 1) :
                            /\ IsSelect(L[j])
                            /\ \A k \in (j + 1)..(i - 1) : ~IsSelect(L[k])
                            /\ L[j].n = CodeFor(e, L[i].of[1])

IsCoordinateCommand(l) == l.kind = "cmd" /\ l.at # NoPoint

\* the value a plotter holds for an axis after line i: that of the last line
\* up to i that prints the axis; <<>> when no line has printed it
LastPrinted(L, i, axis) ==
    LET printed == { j \in 1..i : L[j].kind = "cmd" /\ L[j][axis] # <<>> }
    IN  IF printed = {} THEN <<>>
        ELSE L[CHOOSE j \in printed : \A k \in printed : k <= j][axis]

\* C8: in every artwork file the first coordinate command prints both X and
\* Y, and the position read back from the commands (an omitted axis keeps the
\* last printed value) is the point that was to be plotted.
C8_AxesReadBack ==
    \A e \in WrittenArtwork :
        LET L == LinesOf(e)
        IN  \A i \in DOMAIN L :
                IsCoordinateCommand(L[i]) =>
                    /\ LastPrinted(L, i, "X") = <<emit_coord(L[i].at[1])>>
                    /\ LastPrinted(L, i, "Y") = <<emit_coord(L[i].at[2])>>

---------------------------------------------------------------------------
(* The reader's claims                                                     *)

\* the group code a code line denotes
CodeOf(p) == ParseInt(strip(p[1]), 10)[1]

\* the pairs of an entity that the reader has a parser for
MappedPairs(pairs) == SelectSeq(pairs, LAMBDA p : CodeOf(p) \in DOMAIN parse)

\* the fields that a list of code / value pairs denotes
FieldsOf(pairs) ==
    LET Store(acc, p) == DictSet(acc, CodeOf(p), ParseValue(CodeOf(p), strip(p[2]))[1])
    IN  Fold(Store, EmptyDict, pairs)

\* the drawing that the records denote once every pair with an unmapped code
\* has been removed from them
DrawingWithoutUnmapped(recs) ==
    LET One(d, rec) ==
            IF rec.kind = l_CIRCLE
            THEN read_circle(d, FieldsOf(MappedPairs(rec.pairs)))
            ELSE [d EXCEPT !.polylines = Append(@,
                     [ent |-> FieldsOf(MappedPairs(rec.pairs)),
                      VERTICES |-> [i \in DOMAIN rec.vertices |->
                                       FieldsOf(MappedPairs(rec.vertices[i]))]])]
    IN  Fold(One, EmptyDrawing, recs)

\* C9: when a whole file has been loaded, the stored entities are those of
\* the file with every pair of an unmapped, non-zero group code removed: the
\* value line of such a pair is consumed and never read as a code line.
C9_UnmappedPairsDiscarded ==
    (rd.pc = "done" /\ IsWhole(f)) => dxf = DrawingWithoutUnmapped(f.records)

\* C10: a read that finds the stream exhausted ends the loop that made it,
\* by a return or by a parse error: the reader is never left where it was, to
\* read the exhausted stream again and for ever.
C10_ExhaustedReadEndsLoop ==
    [][f'.eof_reads > f.eof_reads => (rd'.pc # rd.pc \/ raised' # "")]_vars

---------------------------------------------------------------------------
(* Claims about the command stream of an artwork file                      *)

\* region mode after line i of a file: on iff the last G36 / G37 up to i is G36
RegionOn(L, i) ==
    LET toggles == { j \in 1..i : L[j].sym \in {"G36", "G37"} }
    IN  toggles # {} /\ L[CHOOSE j \in toggles : \A k \in toggles : k <= j].sym = "G36"

\* C11: every artwork file the program created ends with the end-of-program
\* command M02, which occurs nowhere else in the file, and region mode is off
\* when it is emitted.
C11_EndsWithM02 ==
    \A e \in WrittenArtwork :
        LET L == LinesOf(e)
        IN  /\ IsComplete(e)
            /\ \A i \in DOMAIN L : L[i].sym = "M02" => i = Len(L)
            /\ ~RegionOn(L, Len(L))

\* the closed polylines of the role of file e, in the order they are plotted
RegionsOf(e) == process_dxf_for_writing(dxf, RoleLayers[e]).Regions

\* a move or draw of a region contour: a coordinate command plotted for no
\* diameter or width
IsContourLine(l) == l.sym \in {"D01", "D02"} /\ l.at # NoPoint /\ l.of = <<>>

\* what a coordinate command does and where: <<command, point>>
Stroke(l) == <<l.sym, l.at>>

\* the closed loop of a polyline: move to the first vertex, draw to each later
\* vertex in order, draw back to the first vertex
ClosedLoop(poly) ==
    LET v == poly.VERTICES
    IN  <<<<"D02", PointOf(v[1])>>>>
        \o [i \in 1..(Len(v) - 1) |-> <<"D01", PointOf(v[i + 1])>>]
        \o <<<<"D01", PointOf(v[1])>>>>

\* the loops of a list of polylines, one after another
ClosedLoops(polys) == Fold(LAMBDA acc, r : acc \o ClosedLoop(r), <<>>, polys)

\* the strokes of the contour lines of a file, in file order
ContourStrokes(L) ==
    LET C == SelectSeq(L, IsContourLine)
    IN  [i \in DOMAIN C |-> Stroke(C[i])]

CountOf(L, sym) == Cardinality({ i \in DOMAIN L : L[i].sym = sym })

\* C12 as stated: a complete artwork file of n closed polylines holds exactly
\* n region-mode-on commands (G36).
C12_G36PerRegion ==
    \A e \in WrittenArtwork :
        IsComplete(e) => CountOf(LinesOf(e), "G36") = Len(RegionsOf(e))

HasNoVertex(p) == p.VERTICES = <<>>

\* the regions plotted whole: those in front of the first one without a vertex
PlottedRegions(R) ==
    LET empty == { i \in DOMAIN R : HasNoVertex(R[i]) }
    IN  IF empty = {} THEN R
        ELSE SubSeq(R, 1, (CHOOSE i \in empty : \A j \in empty : i <= j) - 1)

\* C12, amended: an artwork file holds at most one G36 and at most one G37,
\* however many closed polylines it has.  The G36 stands directly before the
\* move to the first region's first vertex, and every contour line is emitted
\* with region mode on.  A complete file of n closed polylines holds one G36
\* and one G37 when n >= 1, none when n = 0, and its contour lines are the
\* closed loops of all n regions in turn: a move to the first vertex, a draw
\* to each later vertex in order, a draw back to the first vertex.  A region
\* without a vertex raises StopIteration: a file that has one is never
\* complete, and when it was cut short in its regions it holds the G36 (as
\* its last line when the first region is the one without a vertex), the
\* closed loops of the regions in front of that one, and no G37.
C12_OneG36ThenClosedLoops ==
    \A e \in WrittenArtwork :
        LET L == LinesOf(e)
            R == RegionsOf(e)
            n == Len(R)
        IN  /\ CountOf(L, "G36") <= 1
            /\ CountOf(L, "G37") <= 1
            /\ \A i \in DOMAIN L :
                  /\ IsContourLine(L[i]) => RegionOn(L, i)
                  /\ L[i].sym = "G36" =>
                        /\ n >= 1
                        /\ IF HasNoVertex(R[1])
                           THEN i = Len(L) /\ raised = "StopIteration"
                           ELSE /\ i < Len(L)
                                /\ IsContourLine(L[i + 1])
                                /\ Stroke(L[i + 1]) = ClosedLoop(R[1])[1]
            /\ (\E i \in DOMAIN R : HasNoVertex(R[i])) => ~IsComplete(e)
            /\ IsComplete(e) =>
                  /\ CountOf(L, "G36") = (IF n = 0 THEN 0 ELSE 1)
                  /\ CountOf(L, "G37") = (IF n = 0 THEN 0 ELSE 1)
                  /\ ContourStrokes(L) = ClosedLoops(R)
            /\ (~IsComplete(e) /\ CountOf(L, "G36") = 1) =>
                  /\ raised = "StopIteration"
                  /\ \E i \in DOMAIN R : HasNoVertex(R[i])
                  /\ ContourStrokes(L) = ClosedLoops(PlottedRegions(R))
                  /\ CountOf(L, "G37") = 0
            /\ CountOf(L, "G36") = 0 => ContourStrokes(L) = <<>>

\* a complete artwork file of two closed polylines of MaxVerts vertices each
C12_Witness ==
    \E e \in WrittenArtwork :
        /\ IsComplete(e)
        /\ Len(RegionsOf(e)) = 2
        /\ \A i \in 1..2 : Len(RegionsOf(e)[i].VERTICES) = MaxVerts
        /\ CountOf(LinesOf(e), "G36") = 1

---------------------------------------------------------------------------
(* Claims about tracks, flashes and drill points                           *)

\* the open polylines of the role of file e, in drawing order
TracksOf(e) == process_dxf_for_writing(dxf, RoleLayers[e]).Tracks

HasNoWidth(p) == LINEWIDTH \notin DOMAIN p.ent

\* process_cam has been called
CamHasRun == "cam_base" \in DOMAIN gw

\* a move or draw of a track of the given width
IsTrackLine(l, w) == l.sym \in {"D01", "D02"} /\ l.at # NoPoint /\ l.of = <<w>>

\* a track: move to the first vertex, draw to each later vertex in order
OpenPath(poly) ==
    LET v == poly.VERTICES
    IN  [i \in DOMAIN v |-> <<IF i = 1 THEN "D02" ELSE "D01", PointOf(v[i])>>]

OpenPaths(polys) == Fold(LAMBDA acc, p : acc \o OpenPath(p), <<>>, polys)

\* the strokes of the track lines of width w of a file, in file order
TrackStrokes(L, w) ==
    LET T == SelectSeq(L, LAMBDA l : IsTrackLine(l, w))
    IN  [i \in DOMAIN T |-> Stroke(T[i])]

\* the aperture code selected when line i is emitted: that of the last select
\* command before it, <<>> when there is none
SelectedAt(L, i) ==
    LET sel == { j \in 1..(i - 1) : IsSelect(L[j]) }
    IN  IF sel = {} THEN <<>>
        ELSE <<L[CHOOSE j \in sel : \A k \in sel : k <= j].n>>

\* a polyline that is not an open polyline without a width field
IsOtherPolyline(p) == ~(IsOpenPolyline(p) /\ HasNoWidth(p))

\* C13: open polylines without a width field do not abort the run.  When
\* every other polyline of the drawing has a vertex, process_cam raises
\* nothing, and the file of every artwork role that has open polylines
\* without a width field is complete, defines exactly one aperture for
\* diameter 0, of the fallback size 0.01, and plots each of them once and in
\* order (move to the first vertex, draw to each later one) with that
\* aperture selected; every other role with something to plot has its
\* complete file and the drill file is written.
C13_WidthlessTrackIsPlotted ==
    (CamHasRun /\ \A p \in Range(dxf.polylines) : IsOtherPolyline(p) => ~HasNoVertex(p)) =>
        /\ raised = ""
        /\ WrittenDrill = DOMAIN excellon_layers
        /\ \A e \in DOMAIN gerber_layers :
              /\ ~RoleEmpty(e) => Written(e) /\ IsComplete(e)
              /\ SelectSeq(TracksOf(e), HasNoWidth) # <<>> =>
                    LET L == LinesOf(e)
                    IN  /\ \E i \in DOMAIN L :
                              /\ L[i].sym = "ADD" /\ L[i].of = <<0>>
                              /\ L[i].val = default_diameter * scale
                              /\ L[i].n = gw.aperture_diameters[0]
                              /\ \A j \in DOMAIN L :
                                    (L[j].sym = "ADD" /\ L[j].of = <<0>>) => j = i
                        /\ TrackStrokes(L, 0) =
                              OpenPaths(SelectSeq(TracksOf(e), HasNoWidth))
                        /\ \A i \in DOMAIN L :
                              IsTrackLine(L[i], 0) =>
                                 SelectedAt(L, i) = <<gw.aperture_diameters[0]>>

\* C14: in every drill file no tool is defined for diameter 0, every tool
\* definition is for a distinct non-zero diameter of the allocator's set and
\* every such diameter has one; no drill point is emitted for a circle of
\* diameter 0; and every tool-select line is followed at once by the drill
\* point of a circle of non-zero diameter whose tool it selects.
C14_DiameterZeroNeverDrilled ==
    \A e \in WrittenDrill :
        LET L == LinesOf(e)
        IN  /\ \A i \in DOMAIN L : L[i].sym \in {"TC", "XY"} => L[i].of # <<0>>
            /\ IsCodeTable(e, "TC", Range(gw.circular_apertures) \ {0}, 1)
            /\ \A i \in DOMAIN L :
                  L[i].sym = "T" =>
                     /\ i < Len(L)
                     /\ L[i + 1].sym = "XY"
                     /\ L[i + 1].of # <<0>>
                     /\ gw.excellon_drill_diameters[L[i + 1].of[1]] = L[i].n
            /\ \A i \in DOMAIN L :
                  L[i].sym = "XY" =>
                     \E c \in Range(process_dxf_for_writing(dxf, RoleLayers[e]).Circles) :
                        c[DIAMETER] # 0 /\ <<c[DIAMETER]>> = L[i].of /\ PointOf(c) = L[i].at

\* a drill file for a drill layer that has a circle of diameter 0 and a
\* circle of another diameter at another point, which holds a drill point
C14_Witness ==
    \E e \in WrittenDrill :
        /\ \E c0, c1 \in Range(process_dxf_for_writing(dxf, RoleLayers[e]).Circles) :
              c0[DIAMETER] = 0 /\ c1[DIAMETER] # 0 /\ PointOf(c0) # PointOf(c1)
        /\ \E l \in Range(LinesOf(e)) : l.sym = "XY"

---------------------------------------------------------------------------
(* Claims about the values the reader stores.  A stored number is an       *)
(* integer count of eighths, so that it is a multiple of 1/8 is the form   *)
(* of the value; which multiple it is, is what is checked.                 *)

\* the value line of the last pair of `pairs` with group code k
LastRaw(pairs, k) ==
    LET at == { i \in DOMAIN pairs : CodeOf(pairs[i]) = k }
    IN  strip(pairs[CHOOSE i \in at : \A j \in at : j <= i][2])

\* r eighths is a multiple of 1/8 nearest to the decimal number `raw`: they
\* differ by at most 1/16
IsNearestEighth(r, raw) ==
    LET v == RawDecimal(raw)
        diff == r * v[2] - v[1] * prec
    IN  2 * (IF diff < 0 THEN -diff ELSE diff) <= v[2]

\* the stored fields are those of the pairs, each `times` a nearest eighth
StoresNearest(stored, pairs, times) ==
    /\ DOMAIN stored = { CodeOf(pairs[i]) : i \in DOMAIN pairs }
    /\ \A k \in DOMAIN stored :
          \E r \in -(4 * prec)..(4 * prec) :
              /\ IsNearestEighth(r, LastRaw(pairs, k))
              /\ stored[k] = times[k] * r

\* C15: once the file is loaded, a circle's diameter (code 40) is twice a
\* multiple of 1/8 nearest to the raw radius and its other fields are
\* nearest multiples of 1/8 of their raw values; the fields of a polyline and
\* of its vertices, code 40 included, are nearest multiples and not doubled.
C15_DiameterIsTwiceRoundedRadius ==
    rd.pc = "done" =>
        LET rec == f.records[1]
            Twice40 == [k \in DOMAIN parse |-> IF k = DIAMETER THEN 2 ELSE 1]
            Once == [k \in DOMAIN parse |-> 1]
        IN  IF rec.kind = l_CIRCLE
            THEN /\ dxf.polylines = <<>>
                 /\ Len(dxf.circles) = 1
                 /\ StoresNearest(dxf.circles[1], rec.pairs, Twice40)
            ELSE /\ dxf.circles = <<>>
                 /\ Len(dxf.polylines) = 1
                 /\ StoresNearest(dxf.polylines[1].ent, rec.pairs, Once)
                 /\ Len(dxf.polylines[1].VERTICES) = 1
                 /\ StoresNearest(dxf.polylines[1].VERTICES[1], rec.vertices[1], Once)

---------------------------------------------------------------------------
(* Specification SpecMatch: DXFFile.matches called on every pair of three  *)
(* names                                                                   *)

ProbeNames == MatchNames \cup { s_TopCopper, s_top_copper, s_Top, s_DRILL, s_Drill }

InitMatch ==
    /\ gw = NewGerberWriter
    /\ raised = ""
    /\ entities = NoEntities
    /\ request = <<>>
    /\ holes = <<>>
    /\ f = NoStream
    /\ rd = ReaderIdle
    /\ files = [e \in Extensions |-> NoFile]
    /\ dxf = EmptyDrawing
    /\ \E a, b, c \in ProbeNames : probe = [args |-> <<a, b, c>>, results |-> <<>>]

\* DXFFile.matches(x, y) for every two of the three names
Matches ==
    /\ probe.results = <<>>
    /\ probe' = [probe EXCEPT !.results =
                    [i \in 1..3 |-> [j \in 1..3 |->
                        matches(probe.args[i], probe.args[j])]]]
    /\ UNCHANGED <<dxf, gw, files, raised, entities, request, holes, f, rd>>

NextMatch == Matches

SpecMatch == InitMatch /\ [][NextMatch]_vars

---------------------------------------------------------------------------
(* Claims about layer-name matching                                        *)

\* a name trimmed of surrounding white space, in lower case, every space an
\* underscore: character by character between its first and last character
\* that is not white space
NormalForm(s) ==
    LET solid == { i \in DOMAIN s : s[i] \notin Whitespace }
    IN  IF solid = {} THEN <<>>
        ELSE LET lo == CHOOSE i \in solid : \A j \in solid : i <= j
                 hi == CHOOSE i \in solid : \A j \in solid : j <= i
             IN  [i \in 1..(hi - lo + 1) |->
                    LET c == s[lo + i - 1]
                    IN  IF c = " " THEN "_"
                        ELSE IF c \in UpperCaseLetters THEN LowerOf[c] ELSE c]

\* C16: matches(a, b) is true exactly when a and b are equal after trimming,
\* lower-casing and replacing each space by an underscore; on any three names
\* it is reflexive, symmetric and transitive; and "Top Copper", "top_copper"
\* and "TOP COPPER" match one another.
C16_MatchesIsNormalFormEquality ==
    probe.results # <<>> =>
        LET a == probe.args
            m == probe.results
        IN  /\ \A i, j \in 1..3 : m[i][j] = (NormalForm(a[i]) = NormalForm(a[j]))
            /\ \A i \in 1..3 : m[i][i]
            /\ \A i, j \in 1..3 : m[i][j] => m[j][i]
            /\ \A i, j, k \in 1..3 : (m[i][j] /\ m[j][k]) => m[i][k]
            /\ a = <<s_TopCopper, s_top_copper, n_TOP_COPPER>> =>
                  \A i, j \in 1..3 : m[i][j]

\* "Top Copper", "top_copper" and "TOP COPPER" have been matched
C16_Witness ==
    /\ probe.args = <<s_TopCopper, s_top_copper, n_TOP_COPPER>>
    /\ probe.results # <<>>
    /\ probe.results[1][2] /\ probe.results[2][3]

---------------------------------------------------------------------------
(* Claims about the order of an artwork file                               *)

\* the phase a line belongs to: 1 header, 2 aperture table, 3 tracks,
\* 4 flashes, 5 regions, 6 trailer; 0 for an aperture select, which belongs
\* to the phase of the command it is emitted for
PhaseOf(l) ==
    CASE l.sym \in {"G04", "FS", "MO", "SR", "LP"} -> 1
      [] l.sym = "ADD" -> 2
      [] l.sym \in {"D01", "D02"} /\ l.of # <<>> -> 3
      [] l.sym = "D03" -> 4
      [] l.sym = "G36" \/ IsContourLine(l) -> 5
      [] l.sym \in {"G37", "M02"} -> 6
      [] OTHER -> 0

\* the phase of line i; a select takes the phase of the line after it (that
\* of the tracks when the file ends with it)
PhaseAt(L, i) ==
    IF PhaseOf(L[i]) # 0 THEN PhaseOf(L[i])
    ELSE IF i < Len(L) THEN PhaseOf(L[i + 1]) ELSE 3

\* C17: the lines of an artwork file are in the order header, aperture
\* definitions, track commands, flash commands, region commands, trailer,
\* without a step back; so no aperture definition follows a plot command, no
\* track draw follows a flash and no flash follows a region-mode-on command.
C17_PhasesInOrder ==
    \A e \in WrittenArtwork :
        LET L == LinesOf(e)
        IN  /\ \A i \in DOMAIN L : PhaseAt(L, i) \in 1..6
            /\ \A i, j \in DOMAIN L : i < j => PhaseAt(L, i) <= PhaseAt(L, j)
            /\ \A i, j \in DOMAIN L :
                  i < j =>
                     /\ ~(L[i].sym \in {"D01", "D02", "D03"} /\ L[j].sym = "ADD")
                     /\ ~(L[i].sym = "D03" /\ L[j].sym \in {"D01", "D02"} /\ L[j].of # <<>>)
                     /\ ~(L[i].sym = "G36" /\ L[j].sym = "D03")

\* a complete artwork file that holds a track, a flash and a region
C17_Witness ==
    \E e \in WrittenArtwork :
        LET L == LinesOf(e)
        IN  /\ IsComplete(e)
            /\ \E i, j, k \in DOMAIN L :
                  /\ L[i].sym = "D01" /\ L[i].of # <<>>
                  /\ L[j].sym = "D03"
                  /\ L[k].sym = "G36"

\* C18: in every artwork file G36 and G37 alternate, the first being a G36;
\* every contour line of a region is emitted with region mode on, every move
\* or draw of a track and every flash with region mode off; and the writer's
\* region flag agrees with the stream: it is the mode at the end of a file
\* that an exception cut short, and off after a run that raised nothing.
C18_RegionFlagTracksStream ==
    /\ \A e \in WrittenArtwork :
          LET L == LinesOf(e)
          IN  /\ \A i \in DOMAIN L :
                    /\ L[i].sym = "G36" => ~RegionOn(L, i - 1)
                    /\ L[i].sym = "G37" => RegionOn(L, i - 1)
                    /\ IsContourLine(L[i]) => RegionOn(L, i)
                    /\ (L[i].sym \in {"D01", "D02"} /\ L[i].of # <<>>) => ~RegionOn(L, i)
                    /\ L[i].sym = "D03" => ~RegionOn(L, i)
              /\ ~IsComplete(e) => gw.region = RegionOn(L, Len(L))
    /\ (CamHasRun /\ raised = "" /\ "region" \in DOMAIN gw) => ~gw.region

\* a run that raised nothing and wrote an artwork file with a track, a
\* region and both region switches
C18_Witness ==
    /\ CamHasRun
    /\ raised = ""
    /\ \E e \in WrittenArtwork :
          /\ Len(RegionsOf(e)) = 1
          /\ TracksOf(e) # <<>>
          /\ CountOf(LinesOf(e), "G36") = 1
          /\ CountOf(LinesOf(e), "G37") = 1

\* the width a track is plotted with: its width field, 0 when it has none
WidthOf(p) == IF HasNoWidth(p) THEN 0 ELSE p.ent[LINEWIDTH]

\* the flashes of a file: <<point, diameter>> of each D03 line, in file order
FlashesOf(L) ==
    LET D == SelectSeq(L, LAMBDA l : l.sym = "D03")
    IN  [i \in DOMAIN D |-> <<D[i].at, D[i].of[1]>>]

\* C19: after process_cam no aperture lookup has failed.  In every artwork
\* file the tracks of each width are plotted once each, in their order, and
\* the flashes are those of the surviving circles away from the origin, one
\* flash each; each draw of a track and each flash is emitted while the last
\* selected code is the one assigned to its width or diameter, and no select
\* names the code already selected.
C19_ApertureSelection ==
    /\ raised # "KeyError"
    /\ \A e \in WrittenArtwork :
          LET L == LinesOf(e)
          IN  /\ \A w \in Range(gw.circular_apertures) :
                    TrackStrokes(L, w) =
                       OpenPaths(SelectSeq(TracksOf(e), LAMBDA p : WidthOf(p) = w))
              /\ \A fl \in Range(FlashesOf(L)) :
                    /\ Cardinality({ i \in DOMAIN FlashesOf(L) :
                                       FlashesOf(L)[i] = fl }) = 1
                    /\ \E c \in Surviving(e) :
                          fl = <<PointOf(c), c[DIAMETER]>> /\ PointOf(c) # Origin
              /\ \A c \in Surviving(e) :
                    PointOf(c) # Origin =>
                       <<PointOf(c), c[DIAMETER]>> \in Range(FlashesOf(L))
              /\ \A i \in DOMAIN L :
                    /\ (L[i].sym \in {"D01", "D03"} /\ L[i].of # <<>>) =>
                          SelectedAt(L, i) = <<gw.aperture_diameters[L[i].of[1]]>>
                    /\ L[i].sym = "D" => SelectedAt(L, i) # <<L[i].n>>

\* the drawings that list the circles of d in another order
Reordered(d) ==
    { [d EXCEPT !.circles = [i \in DOMAIN d.circles |-> d.circles[q[i]]]] :
        q \in Perms(DOMAIN d.circles) }

\* the circles of a role in drawing d that survive sorting and filtering
SurvivingIn(d, e) ==
    Range(no_duplicates(sorted(process_dxf_for_writing(d, RoleLayers[e]).Circles)))

\* the flashes of an artwork file, the drill points of a drill file
EmittedIn(e) ==
    { <<l.at, l.of[1]>> :
        l \in { m \in Range(LinesOf(e)) :
                  m.sym = (IF e \in DOMAIN gerber_layers THEN "D03" ELSE "XY") } }

\* what the writer of a role emits for the survivors of drawing d: an artwork
\* file has no flash at the origin, a drill file no point of diameter 0
EmittedFor(d, e) ==
    { <<PointOf(c), c[DIAMETER]>> :
        c \in { x \in SurvivingIn(d, e) :
                  IF e \in DOMAIN gerber_layers THEN PointOf(x) # Origin
                  ELSE x[DIAMETER] # 0 } }

\* C20: the flashes of a complete artwork file and the drill points of a
\* drill file are those the writer emits for the drawing with its circles
\* listed in any other order.
C20_EmittedSetIgnoresOrder ==
    \A e \in WrittenArtwork \cup WrittenDrill :
        (e \in WrittenArtwork => IsComplete(e)) =>
            \A d \in Reordered(dxf) : EmittedIn(e) = EmittedFor(d, e)

\* the polylines a classification hands out
ClassifiedPolylines == Range(entities.Tracks) \cup Range(entities.Regions)

\* C21: no step of a classification or emission pass changes the drawing's
\* circle and polyline lists; once the drawing is measured every step leaves
\* the allocator's diameter set equal to the measured diameters; and every
\* classified entity is an entry of the drawing, with its fields and vertices.
C21_DrawingUnchanged ==
    [][ /\ dxf' = dxf
        /\ Measured => Range(gw'.circular_apertures) = MeasuredDiameters(dxf)
        /\ ClassifiedPolylines' \subseteq Range(dxf.polylines)
        /\ Range(entities'.Circles) \subseteq Range(dxf.circles) ]_vars

\* a measured drawing with circles and a polyline that has been classified
\* and from which an artwork file and the drill file were written
C21_Witness ==
    /\ Measured
    /\ dxf.circles # <<>> /\ dxf.polylines # <<>>
    /\ ClassifiedPolylines # {} /\ entities.Circles # <<>>
    /\ WrittenArtwork # {}
    /\ WrittenDrill # {}

====
